---------------------------- MODULE Spec2Model ----------------------------
(***************************************************************************)
(* Portfolio ledger of portfoliodb: the transaction recorder, the holding  *)
(* and cash ledgers and the planned-order state machine, as they run       *)
(* against one shared SQLite store.                                        *)
(*                                                                         *)
(* Store model.  Every service opens its own connection through            *)
(* db.get_connection (sqlite3.connect with the default isolation level,    *)
(* journal_mode = WAL).  With that setting a SELECT that precedes the      *)
(* first INSERT/UPDATE/DELETE of a connection runs outside any             *)
(* transaction and sees the last committed state; the first                *)
(* INSERT/UPDATE/DELETE opens the write transaction, which holds the       *)
(* single write lock until commit or rollback; readers keep seeing the     *)
(* committed state meanwhile.  `db` is the committed store, `wdb` the      *)
(* working copy of the connection that holds the write lock (`lock`).      *)
(*                                                                         *)
(* Numbers.  shares, fee and tax are integers; price, avg_cost, balance    *)
(* and amount are exact rationals <<numerator, denominator>> in lowest     *)
(* terms (the program uses IEEE doubles; rounding is not modelled).        *)
(* Row ids and the columns the services decide on are modelled; the        *)
(* created_at / updated_at stamps are not.  The clock counts minutes; a   *)
(* cache entry's fetched_at is the clock at its upsert.                    *)
(***************************************************************************)
EXTENDS Integers, Sequences, FiniteSets, TLC

VARIABLES
    db,        \* committed store: one set of rows per table
    wdb,       \* working copy of the open write transaction (= db when none)
    lock,      \* connection holding the write lock, or NoProc
    pc,        \* per caller: position inside the running service call
    call,      \* per caller: the running call and its arguments
    existing,  \* per caller: rows fetched by the call's SELECT (0 or 1 row)
    result,    \* the call that returned in the last step, and its outcome
    now        \* the clock (UTC), in minutes

vars == <<db, wdb, lock, pc, call, existing, result, now>>

---------------------------------------------------------------------------
(* Bounds of the exploration *)

\* A call may start while its table holds fewer rows than its bound.
MaxTx == 2          \* transactions, callers interleaving on the ledgers
MaxCashTx == 1      \* cash_transactions
MaxOrders == 1      \* planned_orders
MaxExec == 1        \* transactions, callers interleaving on the orders
MaxSeqTx == 3       \* transactions, one caller
MaxSyncTx == 1      \* transactions, one caller reconciling
MaxHeld == 1        \* add_holding starts while no holding exceeds this size
MaxTime == 61       \* the clock stops here
MaxCashLog == 2     \* cash movements start while the cash log is shorter
MaxRetryTx == 2     \* execute_order starts while fewer transactions are stored
MaxInputTx == 2     \* record_transaction starts while fewer are stored
MaxLedgerTx == 1    \* rows per log and orders, one caller using every service
MaxAccounts == 2    \* accounts, one caller asking for summaries
MaxSetLog == 1      \* deposits before and between the balance sets
MaxEdit == 2        \* planned orders, one caller updating them
MaxViewTx == 2      \* transactions, one caller trading while another reads
MaxRaceTime == 32   \* the clock of the callers racing on the cache stops here

---------------------------------------------------------------------------
(* Exact rational arithmetic *)

RECURSIVE GCD(_, _)
GCD(a, b) == IF b = 0 THEN a ELSE GCD(b, a % b)

Abs(n) == IF n < 0 THEN -n ELSE n

RNorm(n, d) ==
    LET g == GCD(Abs(n), Abs(d))
        s == IF d < 0 THEN -1 ELSE 1
    IN  <<(s * n) \div g, (s * d) \div g>>

Rat(n) == <<n, 1>>
RAdd(x, y) == RNorm(x[1] * y[2] + y[1] * x[2], x[2] * y[2])
RNeg(x) == <<-x[1], x[2]>>
RSub(x, y) == RAdd(x, RNeg(y))
RMul(x, y) == RNorm(x[1] * y[1], x[2] * y[2])
RDiv(x, y) == RNorm(x[1] * y[2], x[2] * y[1])
RLt(x, y) == x[1] * y[2] < y[1] * x[2]

---------------------------------------------------------------------------
(* Program constants *)

CURRENCIES == {"TWD", "USD", "SGD"}
TRANSACTION_ACTIONS == {"BUY", "SELL"}
CASH_CATEGORIES ==
    {"DEPOSIT", "WITHDRAWAL", "DIVIDEND", "INTEREST", "FEE", "FX_CONVERSION"}
ORDER_STATUSES == {"PENDING", "EXECUTED", "CANCELLED"}
ORDER_PRIORITIES == {"HIGH", "NORMAL", "LOW"}

MARKETS == {"TW", "US", "SG"}
MARKET_CURRENCY == ("TW" :> "TWD") @@ ("US" :> "USD") @@ ("SG" :> "SGD")
ACCOUNT_TYPES == {"brokerage", "bank"}

\* The users table: fixed rows (no service changes a user).
users == {[id |-> 1, username |-> "u1"], [id |-> 2, username |-> "u2"]}

\* The accounts table at the start: the account the ledgers work on.
InitialAccounts ==
    {[id |-> 1, user_id |-> 1, account_name |-> "a", market |-> "TW",
      currency |-> "TWD", account_type |-> "brokerage", is_active |-> TRUE]}

Procs == {"p1", "p2"}
NoProc == "none"
NULL == 0           \* SQL NULL in an integer column (ids start at 1)

---------------------------------------------------------------------------
(* Tables *)

EmptyDb ==
    [holdings |-> {}, cash_positions |-> {}, transactions |-> {},
     cash_transactions |-> {}, planned_orders |-> {}, price_cache |-> {},
     exchange_rates |-> {}, accounts |-> InitialAccounts]

\* The accounts table, as committed.
accounts == db.accounts

\* INTEGER PRIMARY KEY AUTOINCREMENT; no service deletes from these tables.
NextId(tbl) == Cardinality(tbl) + 1

\* SELECT * FROM holdings WHERE account_id = ? AND ticker = ?
select_holding(d, account_id, ticker) ==
    {r \in d.holdings : r.account_id = account_id /\ r.ticker = ticker}

\* SELECT * FROM cash_positions WHERE account_id = ? AND currency = ?
select_cash(d, account_id, currency) ==
    {r \in d.cash_positions : r.account_id = account_id /\ r.currency = currency}

\* SELECT * FROM planned_orders WHERE id = ?
select_order(d, order_id) == {r \in d.planned_orders : r.id = order_id}

\* SELECT * FROM accounts WHERE id = ?
get_account(account_id) == {r \in accounts : r.id = account_id}

TheRow(rows) == CHOOSE r \in rows : TRUE

---------------------------------------------------------------------------
(* db.get_connection: commit on normal exit, rollback on an exception *)

Commit(committed, working) == working

\* Mutant: the exception handler keeps what the block has written.
RollbackMutant(committed, working) == working

Rollback(committed, working) == committed

---------------------------------------------------------------------------
(* holding_service.update_holding_from_trade, after its SELECT.           *)
(* `rows` is what the SELECT fetched; `d` is the store the statements run *)
(* on.  Returns the store after the statement, or the error raised.       *)

\* Mutant: only a missing holding is rejected.
SellRejectedMutant(rows, shares) == rows = {}

SellRejected(rows, shares) ==
    rows = {} \/ TheRow(rows).shares < shares

\* Mutant: the plain mean of the old cost and the new price.
BuyAvgCostMutant(old_shares, old_cost, shares, price) ==
    RDiv(RAdd(old_cost, price), Rat(2))

BuyAvgCost(old_shares, old_cost, shares, price) ==
    RDiv(RAdd(RMul(Rat(old_shares), old_cost), RMul(Rat(shares), price)),
         Rat(old_shares + shares))

\* Mutant: a holding sold out is kept with zero shares.
sell_holding_mutant(d, rows, account_id, ticker, shares) ==
    [d EXCEPT !.holdings =
        {IF r.account_id = account_id /\ r.ticker = ticker
            THEN [r EXCEPT !.shares = TheRow(rows).shares - shares]
            ELSE r : r \in d.holdings}]

\* Lines 92-105: the holding after a SELL that passed the check.
sell_holding(d, rows, account_id, ticker, shares) ==
    LET match(r) == r.account_id = account_id /\ r.ticker = ticker
        new_shares == TheRow(rows).shares - shares
    IN  IF new_shares = 0
        THEN [d EXCEPT !.holdings = {r \in d.holdings : ~match(r)}]
        ELSE [d EXCEPT !.holdings =
                {IF match(r) THEN [r EXCEPT !.shares = new_shares]
                             ELSE r : r \in d.holdings}]

update_holding_from_trade(d, rows, account_id, ticker, action, shares, price) ==
    LET match(r) == r.account_id = account_id /\ r.ticker = ticker
    IN
    IF action = "BUY" THEN
        IF rows # {} /\ TheRow(rows).shares + shares = 0
        THEN [err |-> "ZeroDivisionError", db |-> d]    \* / new_shares
        ELSE IF rows # {} THEN
            LET old == TheRow(rows)
                new_shares == old.shares + shares
                new_avg_cost == BuyAvgCost(old.shares, old.avg_cost, shares, price)
            IN  [err |-> "none",
                 db |-> [d EXCEPT !.holdings =
                    {IF match(r)
                        THEN [r EXCEPT !.shares = new_shares,
                                       !.avg_cost = new_avg_cost]
                        ELSE r : r \in d.holdings}]]
        ELSE IF select_holding(d, account_id, ticker) # {}
            THEN [err |-> "IntegrityError", db |-> d]   \* UNIQUE(account_id, ticker)
            ELSE [err |-> "none",
                  db |-> [d EXCEPT !.holdings = @ \cup
                     {[account_id |-> account_id, ticker |-> ticker,
                       shares |-> shares, avg_cost |-> price]}]]
    ELSE IF action = "SELL" THEN
        IF SellRejected(rows, shares)
        THEN [err |-> "InsufficientShares", db |-> d]
        ELSE [err |-> "none",
              db |-> sell_holding(d, rows, account_id, ticker, shares)]
    ELSE [err |-> "none", db |-> d]

---------------------------------------------------------------------------
(* cash_service.adjust_cash, after its SELECT *)

adjust_cash(d, rows, account_id, currency, amount) ==
    LET match(r) == r.account_id = account_id /\ r.currency = currency
    IN
    IF rows # {} THEN
        LET new_balance == RAdd(TheRow(rows).balance, amount)
        IN  [err |-> "none",
             db |-> [d EXCEPT !.cash_positions =
                {IF match(r) THEN [r EXCEPT !.balance = new_balance]
                             ELSE r : r \in d.cash_positions}]]
    ELSE IF select_cash(d, account_id, currency) # {}
        THEN [err |-> "IntegrityError", db |-> d]       \* UNIQUE(account_id, currency)
        ELSE [err |-> "none",
              db |-> [d EXCEPT !.cash_positions = @ \cup
                 {[account_id |-> account_id, currency |-> currency,
                   balance |-> amount]}]]

---------------------------------------------------------------------------
(* transaction_service.record_transaction *)

\* Mutant: a SELL adds fee and tax instead of deducting them.
cash_change_mutant(action, shares, price, fee, tax) ==
    LET total_cost == RMul(Rat(shares), price)
    IN  IF action = "BUY"
        THEN RNeg(RAdd(total_cost, Rat(fee + tax)))
        ELSE RAdd(total_cost, Rat(fee + tax))

cash_change(action, shares, price, fee, tax) ==
    LET total_cost == RMul(Rat(shares), price)
    IN  IF action = "BUY"
        THEN RNeg(RAdd(total_cost, Rat(fee + tax)))
        ELSE RSub(total_cost, Rat(fee + tax))

\* The argument checks and get_account; "none" when the call goes on.
\* Mutant: shares of 0 pass.
record_transaction_check_mutant(a) ==
    IF a.action \notin TRANSACTION_ACTIONS THEN "InvalidAction"
    ELSE IF a.shares < 0 THEN "InvalidShares"
    ELSE IF ~RLt(Rat(0), a.price) THEN "InvalidPrice"
    ELSE IF get_account(a.account_id) = {} THEN "AccountNotFound"
    ELSE "none"

\* Lines 27-38: the checks before the with-block.
record_transaction_check(a) ==
    IF a.action \notin TRANSACTION_ACTIONS THEN "InvalidAction"
    ELSE IF a.shares <= 0 THEN "InvalidShares"
    ELSE IF ~RLt(Rat(0), a.price) THEN "InvalidPrice"
    ELSE IF get_account(a.account_id) = {} THEN "AccountNotFound"
    ELSE "none"

account_currency(account_id) == TheRow(get_account(account_id)).currency

transaction_row(d, a) ==
    [id |-> NextId(d.transactions), account_id |-> a.account_id,
     ticker |-> a.ticker, action |-> a.action, shares |-> a.shares,
     price |-> a.price, fee |-> a.fee, tax |-> a.tax,
     currency |-> account_currency(a.account_id), notes |-> a.notes]


---------------------------------------------------------------------------
(* Callers *)

NoCall == [op |-> "none"]
NoResult == [proc |-> NoProc, call |-> NoCall, out |-> "none"]

\* The call of caller p ends with outcome `out` ("ok" or the error raised).
Return(p, c, out) ==
    /\ pc' = [pc EXCEPT ![p] = "idle"]
    /\ call' = [call EXCEPT ![p] = NoCall]
    /\ existing' = [existing EXCEPT ![p] = {}]
    /\ result' = [proc |-> p, call |-> c, out |-> out]
    /\ UNCHANGED now

\* The call of caller p goes on at `at`, having fetched `rows`.
Goto(p, c, at, rows) ==
    /\ pc' = [pc EXCEPT ![p] = at]
    /\ call' = [call EXCEPT ![p] = c]
    /\ existing' = [existing EXCEPT ![p] = rows]
    /\ result' = NoResult
    /\ UNCHANGED now

\* Positions at which the next statement of the call writes.
WritePcs == {"rt_holding", "rt_cash", "rt_insert", "eo_update", "co_update",
             "uo_update", "ct_adjust", "ct_insert", "ah_write", "sy_upsert",
             "sy_remove"}

\* A with-block left by an exception: get_connection rolls back.
Abort(p, out) ==
    /\ IF lock = p
       THEN /\ db' = Rollback(db, wdb)
            /\ wdb' = db'
            /\ lock' = NoProc
       ELSE UNCHANGED <<db, wdb, lock>>     \* nothing written yet
    /\ Return(p, call[p], out)

---------------------------------------------------------------------------
(* transaction_service.record_transaction *)

\* Lines 27-38 and the SELECT and SELL check of update_holding_from_trade:
\* nothing has been written yet, so a raise leaves the store as it was.
record_transaction_begin(p, c) ==
    LET a == c.args
        chk == record_transaction_check(a)
        rows == select_holding(db, a.account_id, a.ticker)
    IN  /\ UNCHANGED <<db, wdb, lock>>
        /\ IF chk # "none" THEN Return(p, c, chk)
           ELSE IF a.action = "SELL" /\ SellRejected(rows, a.shares)
                THEN Return(p, c, "InsufficientShares")
                ELSE Goto(p, c, "rt_holding", rows)

record_transaction_call(p, a) ==
    /\ pc[p] = "idle"
    /\ record_transaction_begin(p, [op |-> "record_transaction", args |-> a])

\* 1. Update holdings: the first write, which opens the write transaction.
record_transaction_holding(p) ==
    /\ pc[p] = "rt_holding"
    /\ lock = NoProc
    /\ LET a == call[p].args
           r == update_holding_from_trade(db, existing[p], a.account_id,
                                          a.ticker, a.action, a.shares, a.price)
       IN  IF r.err # "none"
           THEN Abort(p, r.err)
           ELSE /\ wdb' = r.db
                /\ lock' = p
                /\ pc' = [pc EXCEPT ![p] = "rt_cash"]
                /\ result' = NoResult
                /\ UNCHANGED <<db, call, existing, now>>

\* 2. Update cash: adjust_cash on the same connection, inside the transaction.
record_transaction_cash(p) ==
    /\ pc[p] = "rt_cash"
    /\ lock = p
    /\ LET a == call[p].args
           currency == account_currency(a.account_id)
           rows == select_cash(wdb, a.account_id, currency)
           r == adjust_cash(wdb, rows, a.account_id, currency,
                            cash_change(a.action, a.shares, a.price, a.fee, a.tax))
       IN  /\ wdb' = r.db
           /\ pc' = [pc EXCEPT ![p] = "rt_insert"]
           /\ result' = NoResult
           /\ UNCHANGED <<db, lock, call, existing, now>>

\* 3. Record the transaction, then leave the with-block: commit.
record_transaction_insert(p) ==
    /\ pc[p] = "rt_insert"
    /\ lock = p
    /\ LET row == transaction_row(wdb, call[p].args)
           working == [wdb EXCEPT !.transactions = @ \cup {row}]
       IN  /\ db' = Commit(db, working)
           /\ wdb' = db'
           /\ lock' = NoProc
           /\ IF call[p].op = "execute_order"
              THEN Goto(p, [call[p] EXCEPT !.tx_id = row.id], "eo_update", {})
              ELSE Return(p, call[p], "ok")

\* A statement or the commit fails (database is locked, I/O error).
storage_error(p) ==
    /\ pc[p] \in WritePcs
    /\ Abort(p, "StorageError")


---------------------------------------------------------------------------
(* order_service *)

NoPrice == <<0, 0>>     \* SQL NULL in target_price

\* kwargs of update_order that pass `k in allowed and v is not None`; None is
\* NoPrice as a target_price and "NULL" as a reason.
allowed == {"ticker", "action", "shares", "target_price", "reason", "priority"}
is_none(k, v) ==
    \/ k = "target_price" /\ v = NoPrice
    \/ k = "reason" /\ v = "NULL"
\* Mutant: every keyword argument is written.
updates_of_mutant(kwargs) == kwargs

updates_of(kwargs) ==
    [k \in {f \in DOMAIN kwargs \cap allowed : ~is_none(f, kwargs[f])}
        |-> kwargs[k]]

\* UPDATE planned_orders SET status = 'EXECUTED', executed_at = datetime('now'),
\* linked_transaction_id = ? WHERE id = ?
set_executed(d, order_id, tx_id) ==
    [d EXCEPT !.planned_orders =
        {IF r.id = order_id
            THEN [r EXCEPT !.status = "EXECUTED", !.executed_at = "now",
                           !.linked_transaction_id = tx_id]
            ELSE r : r \in d.planned_orders}]

\* Mutant: the UPDATE without its WHERE clause.
set_cancelled_mutant(d, order_id) ==
    [d EXCEPT !.planned_orders =
        {[r EXCEPT !.status = "CANCELLED"] : r \in d.planned_orders}]

\* UPDATE planned_orders SET status = 'CANCELLED' WHERE id = ?
set_cancelled(d, order_id) ==
    [d EXCEPT !.planned_orders =
        {IF r.id = order_id THEN [r EXCEPT !.status = "CANCELLED"]
                            ELSE r : r \in d.planned_orders}]

\* UPDATE planned_orders SET {set_clause} WHERE id = ?
set_fields(d, order_id, updates) ==
    [d EXCEPT !.planned_orders =
        {IF r.id = order_id
            THEN [k \in DOMAIN r |->
                    IF k \in DOMAIN updates THEN updates[k] ELSE r[k]]
            ELSE r : r \in d.planned_orders}]

\* create_order: the checks, then one INSERT and the commit.
create_order(p, account_id, ticker, action, shares, target_price, reason, priority) ==
    LET c == [op |-> "create_order", action |-> action, priority |-> priority]
        row == [id |-> NextId(db.planned_orders), account_id |-> account_id,
                ticker |-> ticker, action |-> action, shares |-> shares,
                target_price |-> target_price, reason |-> reason,
                priority |-> priority, status |-> "PENDING",
                executed_at |-> "NULL", linked_transaction_id |-> NULL]
    IN  /\ pc[p] = "idle"
        /\ IF action \notin TRANSACTION_ACTIONS
           THEN UNCHANGED <<db, wdb, lock>> /\ Return(p, c, "InvalidAction")
           ELSE IF priority \notin ORDER_PRIORITIES
           THEN UNCHANGED <<db, wdb, lock>> /\ Return(p, c, "InvalidPriority")
           ELSE /\ lock = NoProc
                /\ db' = Commit(db, [db EXCEPT !.planned_orders = @ \cup {row}])
                /\ wdb' = db'
                /\ UNCHANGED lock
                /\ Return(p, c, "ok")

\* The first with-block of execute_order / cancel_order / update_order:
\* SELECT the order and check it; nothing is written.
\* Mutant: the status of the order is not checked.
order_check_mutant(rows) == IF rows = {} THEN "NotFound" ELSE "none"

order_check(rows) ==
    IF rows = {} THEN "NotFound"
    ELSE IF TheRow(rows).status # "PENDING" THEN "InvalidState"
    ELSE "none"

\* Mutant: an order with a target price is recorded at that price.
execute_order_call_mutant(p, order_id, actual_price, fee, tax) ==
    LET rows == select_order(db, order_id)
        c == [op |-> "execute_order", order_id |-> order_id, tx_id |-> NULL,
              actual_price |-> actual_price, fee |-> fee, tax |-> tax,
              args |-> [account_id |-> NULL, ticker |-> "", action |-> "",
                        shares |-> 0, price |-> actual_price, fee |-> fee,
                        tax |-> tax, notes |-> order_id]]
    IN  /\ pc[p] = "idle"
        /\ UNCHANGED <<db, wdb, lock>>
        /\ IF order_check(rows) # "none"
           THEN Return(p, c, order_check(rows))
           ELSE LET order == TheRow(rows)
                IN  Goto(p, [c EXCEPT !.args.account_id = order.account_id,
                                      !.args.ticker = order.ticker,
                                      !.args.action = order.action,
                                      !.args.shares = order.shares,
                                      !.args.price =
                                          IF order.target_price # NoPrice
                                          THEN order.target_price ELSE @],
                         "eo_record", {})

\* The first with-block of execute_order and the arguments it passes to
\* record_transaction (lines 83-92); the call keeps what the caller supplied.
execute_order_call(p, order_id, actual_price, fee, tax) ==
    LET rows == select_order(db, order_id)
        c == [op |-> "execute_order", order_id |-> order_id, tx_id |-> NULL,
              actual_price |-> actual_price, fee |-> fee, tax |-> tax,
              args |-> [account_id |-> NULL, ticker |-> "", action |-> "",
                        shares |-> 0, price |-> actual_price, fee |-> fee,
                        tax |-> tax, notes |-> order_id]]
    IN  /\ pc[p] = "idle"
        /\ UNCHANGED <<db, wdb, lock>>
        /\ IF order_check(rows) # "none"
           THEN Return(p, c, order_check(rows))
           ELSE LET order == TheRow(rows)
                IN  Goto(p, [c EXCEPT !.args.account_id = order.account_id,
                                      !.args.ticker = order.ticker,
                                      !.args.action = order.action,
                                      !.args.shares = order.shares],
                         "eo_record", {})

\* execute_order calls record_transaction with the order it read.
execute_order_record(p) ==
    /\ pc[p] = "eo_record"
    /\ record_transaction_begin(p, call[p])

\* The second with-block of execute_order: UPDATE ... WHERE id = ?, commit.
execute_order_update(p) ==
    /\ pc[p] = "eo_update"
    /\ lock = NoProc
    /\ db' = Commit(db, set_executed(db, call[p].order_id, call[p].tx_id))
    /\ wdb' = db'
    /\ UNCHANGED lock
    /\ Return(p, call[p], "ok")

cancel_order_call(p, order_id) ==
    LET rows == select_order(db, order_id)
        c == [op |-> "cancel_order", order_id |-> order_id]
    IN  /\ pc[p] = "idle"
        /\ UNCHANGED <<db, wdb, lock>>
        /\ IF order_check(rows) # "none"
           THEN Return(p, c, order_check(rows))
           ELSE Goto(p, c, "co_update", {})

cancel_order_update(p) ==
    /\ pc[p] = "co_update"
    /\ lock = NoProc
    /\ db' = Commit(db, set_cancelled(db, call[p].order_id))
    /\ wdb' = db'
    /\ UNCHANGED lock
    /\ Return(p, call[p], "ok")

update_order_call(p, order_id, kwargs) ==
    LET rows == select_order(db, order_id)
        c == [op |-> "update_order", order_id |-> order_id,
              kwargs |-> kwargs, updates |-> updates_of(kwargs)]
    IN  /\ pc[p] = "idle"
        /\ UNCHANGED <<db, wdb, lock>>
        /\ IF DOMAIN c.updates = {}
           THEN Return(p, c, "NoValidFields")
           ELSE IF order_check(rows) # "none"
           THEN Return(p, c, order_check(rows))
           ELSE Goto(p, c, "uo_update", {})

update_order_update(p) ==
    /\ pc[p] = "uo_update"
    /\ lock = NoProc
    /\ db' = Commit(db, set_fields(db, call[p].order_id, call[p].updates))
    /\ wdb' = db'
    /\ UNCHANGED lock
    /\ Return(p, call[p], "ok")

---------------------------------------------------------------------------
(* cash_service.record_cash_transaction *)

\* The checks, then adjust_cash's SELECT: the first statement of the
\* connection, so it runs before the write transaction opens.
record_cash_transaction_call_mutant(p, account_id, currency, amount, category) ==
    LET c == [op |-> "record_cash_transaction", account_id |-> account_id,
              currency |-> currency, amount |-> amount, category |-> category]
    IN  /\ pc[p] = "idle"
        /\ UNCHANGED <<db, wdb, lock>>
        /\ IF currency \notin CURRENCIES THEN Return(p, c, "InvalidCurrency")
           ELSE Goto(p, c, "ct_adjust", select_cash(db, account_id, currency))

\* Lines 86-91 and adjust_cash's SELECT, the first statement of the connection.
record_cash_transaction_call(p, account_id, currency, amount, category) ==
    LET c == [op |-> "record_cash_transaction", account_id |-> account_id,
              currency |-> currency, amount |-> amount, category |-> category]
    IN  /\ pc[p] = "idle"
        /\ UNCHANGED <<db, wdb, lock>>
        /\ IF currency \notin CURRENCIES THEN Return(p, c, "InvalidCurrency")
           ELSE IF category \notin CASH_CATEGORIES THEN Return(p, c, "InvalidCategory")
           ELSE Goto(p, c, "ct_adjust", select_cash(db, account_id, currency))

\* adjust_cash's UPDATE or INSERT: opens the write transaction.
record_cash_transaction_adjust(p) ==
    /\ pc[p] = "ct_adjust"
    /\ lock = NoProc
    /\ LET c == call[p]
           r == adjust_cash(db, existing[p], c.account_id, c.currency, c.amount)
       IN  IF r.err # "none"
           THEN Abort(p, r.err)
           ELSE /\ wdb' = r.db
                /\ lock' = p
                /\ pc' = [pc EXCEPT ![p] = "ct_insert"]
                /\ result' = NoResult
                /\ UNCHANGED <<db, call, existing, now>>

\* INSERT INTO cash_transactions, then commit.
record_cash_transaction_insert(p) ==
    /\ pc[p] = "ct_insert"
    /\ lock = p
    /\ LET c == call[p]
           row == [id |-> NextId(wdb.cash_transactions),
                   account_id |-> c.account_id, currency |-> c.currency,
                   amount |-> c.amount, category |-> c.category]
       IN  db' = Commit(db, [wdb EXCEPT !.cash_transactions = @ \cup {row}])
    /\ wdb' = db'
    /\ lock' = NoProc
    /\ Return(p, call[p], "ok")

---------------------------------------------------------------------------
(* holding_service.add_holding, remove_holding, list_holdings *)

\* add_holding after its SELECT fetched `rows`: the merge UPDATE or the INSERT.
add_holding(d, rows, account_id, ticker, shares, avg_cost) ==
    LET match(r) == r.account_id = account_id /\ r.ticker = ticker
    IN
    IF rows # {} THEN
        LET old_shares == TheRow(rows).shares
            old_cost == TheRow(rows).avg_cost
            new_total_shares == old_shares + shares
            new_avg_cost ==
                IF new_total_shares > 0
                THEN RDiv(RAdd(RMul(Rat(old_shares), old_cost),
                               RMul(Rat(shares), avg_cost)),
                          Rat(new_total_shares))
                ELSE Rat(0)
        IN  [err |-> "none",
             db |-> [d EXCEPT !.holdings =
                {IF match(r)
                    THEN [r EXCEPT !.shares = new_total_shares,
                                   !.avg_cost = new_avg_cost]
                    ELSE r : r \in d.holdings}]]
    ELSE IF select_holding(d, account_id, ticker) # {}
        THEN [err |-> "IntegrityError", db |-> d]       \* UNIQUE(account_id, ticker)
        ELSE [err |-> "none",
              db |-> [d EXCEPT !.holdings = @ \cup
                 {[account_id |-> account_id, ticker |-> ticker,
                   shares |-> shares, avg_cost |-> avg_cost]}]]

\* The SELECT: the first statement of the connection.
add_holding_call(p, account_id, ticker, shares, avg_cost) ==
    LET c == [op |-> "add_holding", account_id |-> account_id,
              ticker |-> ticker, shares |-> shares, avg_cost |-> avg_cost]
    IN  /\ pc[p] = "idle"
        /\ UNCHANGED <<db, wdb, lock>>
        /\ Goto(p, c, "ah_write", select_holding(db, account_id, ticker))

\* The UPDATE or INSERT, then the commit.
add_holding_update(p) ==
    /\ pc[p] = "ah_write"
    /\ lock = NoProc
    /\ LET c == call[p]
           r == add_holding(db, existing[p], c.account_id, c.ticker,
                            c.shares, c.avg_cost)
       IN  IF r.err # "none"
           THEN Abort(p, r.err)
           ELSE /\ db' = Commit(db, r.db)
                /\ wdb' = db'
                /\ UNCHANGED lock
                /\ Return(p, c, "ok")

\* DELETE FROM holdings WHERE account_id = ? AND ticker = ?
\* Mutant: the trades of the ticker go with the holding.
remove_holding_mutant(d, account_id, ticker) ==
    [d EXCEPT !.holdings =
        {r \in d.holdings : ~(r.account_id = account_id /\ r.ticker = ticker)},
              !.transactions =
        {t \in @ : ~(t.account_id = account_id /\ t.ticker = ticker)}]

\* DELETE FROM holdings WHERE account_id = ? AND ticker = ?
remove_holding(d, account_id, ticker) ==
    [d EXCEPT !.holdings =
        {r \in d.holdings : ~(r.account_id = account_id /\ r.ticker = ticker)}]

remove_holding_call(p, account_id, ticker) ==
    /\ pc[p] = "idle"
    /\ lock = NoProc
    /\ db' = Commit(db, remove_holding(db, account_id, ticker))
    /\ wdb' = db'
    /\ UNCHANGED lock
    /\ Return(p, [op |-> "remove_holding", account_id |-> account_id,
                  ticker |-> ticker], "ok")

\* SELECT * FROM holdings WHERE account_id = ? AND shares > 0 ORDER BY ticker
list_holdings(d, account_id) ==
    {r \in d.holdings : r.account_id = account_id /\ r.shares > 0}

\* ORDER BY ticker on the tickers of the model.
TickerOrder == <<"2330.TW", "AAPL">>

---------------------------------------------------------------------------
(* sync_service.sync_broker_holdings *)

RAbs(x) == <<Abs(x[1]), x[2]>>

\* old.shares != shares or abs(old.avg_cost - avg_cost) > 0.01
CostTolerance == <<1, 100>>
sync_changed(old, shares, avg_cost) ==
    \/ old.shares # shares
    \/ RLt(CostTolerance, RAbs(RSub(old.avg_cost, avg_cost)))

\* The locals of the loop before its first item, on store d.
sync_start(d) ==
    [err |-> "none", db |-> d, added |-> 0, updated |-> 0, broker_tickers |-> {}]

\* The loop of the with-block over the items of holdings_data, in order.
RECURSIVE sync_items(_, _, _, _)
sync_items(s, existing_map, account_id, items) ==
    IF items = <<>> \/ s.err # "none" THEN s
    ELSE
        LET item == Head(items)
            match(r) == r.account_id = account_id /\ r.ticker = item.ticker
            old == {r \in existing_map : r.ticker = item.ticker}
            s1 == [s EXCEPT !.broker_tickers = @ \cup {item.ticker}]
            s2 ==
                IF item.shares <= 0 THEN s1
                ELSE IF old # {} THEN
                    IF sync_changed(TheRow(old), item.shares, item.avg_cost)
                    THEN [s1 EXCEPT
                            !.db = [s.db EXCEPT !.holdings =
                                {IF match(r)
                                    THEN [r EXCEPT !.shares = item.shares,
                                                   !.avg_cost = item.avg_cost]
                                    ELSE r : r \in s.db.holdings}],
                            !.updated = @ + 1]
                    ELSE s1
                ELSE IF select_holding(s.db, account_id, item.ticker) # {}
                    THEN [s1 EXCEPT !.err = "IntegrityError"]
                    ELSE [s1 EXCEPT
                            !.db = [s.db EXCEPT !.holdings = @ \cup
                                {[account_id |-> account_id,
                                  ticker |-> item.ticker,
                                  shares |-> item.shares,
                                  avg_cost |-> item.avg_cost]}],
                            !.added = @ + 1]
        IN  sync_items(s2, existing_map, account_id, Tail(items))

\* The tickers of existing_map that are not in broker_tickers, in map order.
sync_todo(existing_map, broker_tickers) ==
    LET gone(t) == /\ \E r \in existing_map : r.ticker = t
                   /\ t \notin broker_tickers
    IN  SelectSeq(TickerOrder, gone)

sync_broker_holdings_call(p, account_id, holdings_data) ==
    LET c == [op |-> "sync_broker_holdings", account_id |-> account_id,
              holdings_data |-> holdings_data, added |-> 0, updated |-> 0,
              removed |-> 0, todo |-> <<>>]
    IN  /\ pc[p] = "idle"
        /\ UNCHANGED <<db, wdb, lock>>
        /\ IF get_account(account_id) = {}
           THEN Return(p, c, "AccountNotFound")
           ELSE Goto(p, c, "sy_upsert", list_holdings(db, account_id))

\* The with-block: every UPDATE and INSERT of the loop, then the commit.
sync_broker_holdings_upsert(p) ==
    /\ pc[p] = "sy_upsert"
    /\ LET c == call[p]
           s == sync_items(sync_start(db), existing[p], c.account_id,
                           c.holdings_data)
           todo == sync_todo(existing[p], s.broker_tickers)
           c2 == [c EXCEPT !.added = s.added, !.updated = s.updated,
                           !.todo = todo]
       IN  /\ (s.err # "none" \/ s.added + s.updated > 0) => lock = NoProc
           /\ IF s.err # "none"
              THEN Abort(p, s.err)
              ELSE /\ db' = Commit(db, s.db)
                   /\ wdb' = IF lock = NoProc THEN db' ELSE wdb
                   /\ UNCHANGED lock
                   /\ IF todo = <<>>
                      THEN Return(p, c2, "ok")
                      ELSE Goto(p, c2, "sy_remove", existing[p])

\* One remove_holding of the loop after the with-block: its own commit.
sync_broker_holdings_remove(p) ==
    /\ pc[p] = "sy_remove"
    /\ lock = NoProc
    /\ LET c == call[p]
           c2 == [c EXCEPT !.removed = @ + 1, !.todo = Tail(c.todo)]
       IN  /\ db' = Commit(db, remove_holding(db, c.account_id, Head(c.todo)))
           /\ wdb' = db'
           /\ UNCHANGED lock
           /\ IF c2.todo = <<>>
              THEN Return(p, c2, "ok")
              ELSE Goto(p, c2, "sy_remove", existing[p])

\* sync_broker_holdings run from store d without interruption.
RECURSIVE remove_all(_, _, _)
remove_all(d, account_id, todo) ==
    IF todo = <<>> THEN d
    ELSE remove_all(remove_holding(d, account_id, Head(todo)), account_id,
                    Tail(todo))

sync_broker_holdings(d, account_id, holdings_data) ==
    LET existing_map == list_holdings(d, account_id)
        s == sync_items(sync_start(d), existing_map, account_id, holdings_data)
        todo == sync_todo(existing_map, s.broker_tickers)
    IN  IF s.err # "none"
        THEN [err |-> s.err, db |-> d, added |-> 0, updated |-> 0, removed |-> 0]
        ELSE [err |-> "none", db |-> remove_all(s.db, account_id, todo),
              added |-> s.added, updated |-> s.updated, removed |-> Len(todo)]

---------------------------------------------------------------------------
(* account_service.create_account, deactivate_account *)

\* str.upper() on the strings of the model.
upper(str) ==
    IF str = "tw" THEN "TW" ELSE IF str = "us" THEN "US"
    ELSE IF str = "sg" THEN "SG" ELSE IF str = "jp" THEN "JP" ELSE str

insert_account_mutant(d, user_id, account_name, market, account_type) ==
    IF \A u \in users : u.id # user_id
    THEN [err |-> "IntegrityError", db |-> d]
    ELSE IF \E r \in d.accounts :
                r.user_id = user_id /\ r.account_name = account_name
    THEN [err |-> "IntegrityError", db |-> d]
    ELSE [err |-> "none",
          db |-> [d EXCEPT !.accounts = @ \cup
             {[id |-> NextId(d.accounts), user_id |-> user_id,
               account_name |-> account_name, market |-> market,
               currency |-> "USD",
               account_type |-> account_type, is_active |-> TRUE]}]]

\* The INSERT of create_account on store d, after the checks of lines 25-28.
insert_account(d, user_id, account_name, market, account_type) ==
    IF \A u \in users : u.id # user_id
    THEN [err |-> "IntegrityError", db |-> d]       \* REFERENCES users(id)
    ELSE IF \E r \in d.accounts :
                r.user_id = user_id /\ r.account_name = account_name
    THEN [err |-> "IntegrityError", db |-> d]       \* UNIQUE(user_id, account_name)
    ELSE [err |-> "none",
          db |-> [d EXCEPT !.accounts = @ \cup
             {[id |-> NextId(d.accounts), user_id |-> user_id,
               account_name |-> account_name, market |-> market,
               currency |-> MARKET_CURRENCY[market],
               account_type |-> account_type, is_active |-> TRUE]}]]

create_account(p, user_id, account_name, market_arg, account_type) ==
    LET c == [op |-> "create_account", user_id |-> user_id,
              account_name |-> account_name, market |-> market_arg,
              account_type |-> account_type]
        market == upper(market_arg)
    IN  /\ pc[p] = "idle"
        /\ IF market \notin MARKETS
           THEN UNCHANGED <<db, wdb, lock>> /\ Return(p, c, "InvalidMarket")
           ELSE IF account_type \notin ACCOUNT_TYPES
           THEN UNCHANGED <<db, wdb, lock>> /\ Return(p, c, "InvalidAccountType")
           ELSE LET r == insert_account(db, user_id, account_name, market,
                                        account_type)
                IN  /\ lock = NoProc
                    /\ db' = IF r.err = "none" THEN Commit(db, r.db)
                                               ELSE Rollback(db, r.db)
                    /\ wdb' = db'
                    /\ UNCHANGED lock
                    /\ Return(p, c, IF r.err = "none" THEN "ok" ELSE r.err)

\* UPDATE accounts SET is_active = 0 WHERE id = ?
deactivate_account(p, account_id) ==
    /\ pc[p] = "idle"
    /\ lock = NoProc
    /\ db' = Commit(db, [db EXCEPT !.accounts =
                {IF r.id = account_id THEN [r EXCEPT !.is_active = FALSE] ELSE r
                    : r \in db.accounts}])
    /\ wdb' = db'
    /\ UNCHANGED lock
    /\ Return(p, [op |-> "deactivate_account", account_id |-> account_id], "ok")

\* SELECT * FROM accounts WHERE user_id = ? AND is_active = 1
list_accounts(d, user_id) ==
    {r \in d.accounts : r.user_id = user_id /\ r.is_active}

---------------------------------------------------------------------------
(* cash_service.set_cash, sync_service.sync_broker_cash *)

set_cash_mutant(d, account_id, currency, balance) ==
    IF currency \notin CURRENCIES
    THEN [err |-> "InvalidCurrency", db |-> d]
    ELSE IF \A r \in d.accounts : r.id # account_id
    THEN [err |-> "IntegrityError", db |-> d]
    ELSE LET rows == select_cash(d, account_id, currency)
             old == IF rows = {} THEN Rat(0) ELSE TheRow(rows).balance
         IN  [err |-> "none",
              db |-> [d EXCEPT !.cash_positions =
                 (@ \ rows) \cup {[account_id |-> account_id,
                                   currency |-> currency,
                                   balance |-> RAdd(old, balance)]}]]

\* set_cash on store d: the currency check and the upsert.
set_cash(d, account_id, currency, balance) ==
    IF currency \notin CURRENCIES
    THEN [err |-> "InvalidCurrency", db |-> d]
    ELSE IF \A r \in d.accounts : r.id # account_id
    THEN [err |-> "IntegrityError", db |-> d]       \* REFERENCES accounts(id)
    ELSE [err |-> "none",
          db |-> [d EXCEPT !.cash_positions =
             {r \in @ : ~(r.account_id = account_id /\ r.currency = currency)}
                \cup {[account_id |-> account_id, currency |-> currency,
                       balance |-> balance]}]]

set_cash_call(p, op, account_id, currency, balance) ==
    LET c == [op |-> op, account_id |-> account_id, currency |-> currency,
              balance |-> balance]
        r == set_cash(db, account_id, currency, balance)
    IN  /\ pc[p] = "idle"
        /\ r.err # "InvalidCurrency" => lock = NoProc
        /\ db' = IF r.err = "none" THEN Commit(db, r.db) ELSE Rollback(db, r.db)
        /\ wdb' = IF lock = NoProc THEN db' ELSE wdb
        /\ UNCHANGED lock
        /\ Return(p, c, IF r.err = "none" THEN "ok" ELSE r.err)

\* sync_broker_cash passes the snapshot's currency and balance to set_cash.
sync_broker_cash(p, account_id, balance_data) ==
    set_cash_call(p, "sync_broker_cash", account_id, balance_data.currency,
                  balance_data.balance)

---------------------------------------------------------------------------
(* price_service and fx_service: the market data cache *)

PRICE_CACHE_TTL_MINUTES == 15
FX_CACHE_TTL_MINUTES == 60

cache_expired_mutant(t, fetched_at, ttl) == t - fetched_at >= ttl

\* datetime.utcnow() - fetched_at > timedelta(minutes=ttl)
cache_expired(t, fetched_at, ttl) == t - fetched_at > ttl

\* SELECT ... FROM price_cache WHERE ticker = ?
select_price_cache(d, ticker) == {r \in d.price_cache : r.ticker = ticker}

\* SELECT ... FROM exchange_rates WHERE from_currency = ? AND to_currency = ?
select_rate_cache(d, from_currency, to_currency) ==
    {r \in d.exchange_rates :
        r.from_currency = from_currency /\ r.to_currency = to_currency}

\* _get_cached_price: the row of the ticker, if there is one and it is fresh.
get_cached_price(d, t, ticker) ==
    {r \in select_price_cache(d, ticker) :
        ~cache_expired(t, r.fetched_at, PRICE_CACHE_TTL_MINUTES)}

\* _get_cached_rate
get_cached_rate(d, t, from_currency, to_currency) ==
    {r \in select_rate_cache(d, from_currency, to_currency) :
        ~cache_expired(t, r.fetched_at, FX_CACHE_TTL_MINUTES)}

\* Mutant: a plain INSERT on a table without the UNIQUE constraint.
update_price_cache_mutant(d, t, ticker, price, currency) ==
    [d EXCEPT !.price_cache = @ \cup
        {[ticker |-> ticker, price |-> price, currency |-> currency,
          fetched_at |-> t]}]

\* INSERT INTO price_cache ... ON CONFLICT(ticker) DO UPDATE ...
update_price_cache(d, t, ticker, price, currency) ==
    [d EXCEPT !.price_cache =
        {r \in @ : r.ticker # ticker} \cup
        {[ticker |-> ticker, price |-> price, currency |-> currency,
          fetched_at |-> t]}]

\* INSERT INTO exchange_rates ... ON CONFLICT(from_currency, to_currency) ...
update_rate_cache(d, t, from_currency, to_currency, rate) ==
    [d EXCEPT !.exchange_rates =
        {r \in @ : ~(r.from_currency = from_currency
                     /\ r.to_currency = to_currency)} \cup
        {[from_currency |-> from_currency, to_currency |-> to_currency,
          rate |-> rate, fetched_at |-> t]}]

\* info.get("lastPrice") or info.get("previousClose"); NoPrice is None.
source_value(info) ==
    IF info.lastPrice # NoPrice /\ info.lastPrice[1] # 0
    THEN info.lastPrice
    ELSE info.previousClose

\* What the source step of a fetch raises, "none" when it goes on.
source_error(info, unavailable) ==
    IF info.raises THEN "SourceError"
    ELSE IF source_value(info) = NoPrice THEN unavailable
    ELSE "none"

NoEntry == [ticker |-> "", price |-> NoPrice, currency |-> "None"]
NoInfo == [lastPrice |-> NoPrice, previousClose |-> NoPrice,
           currency |-> "None", raises |-> FALSE]
NoResults == [t \in {} |-> NoEntry]

\* The loop of fetch_prices is over: fetch_prices returns to its caller, the
\* application or line 36 of get_account_summary.
fetch_prices_return(p, c) ==
    IF c.op = "fetch_prices"
    THEN Return(p, c, "ok")
    ELSE Goto(p, c, "as_return", {})

\* fetch_rate ends with its rate or the error it raised: it returns to the
\* application, or to the loop of get_all_rates, which stores the rate and
\* lets an exception pass to the summary that called it.
fetch_rate_done(p, c, err) ==
    IF c.op = "fetch_rate" \/ err # "none"
    THEN Return(p, c, IF err = "none" THEN "ok" ELSE err)
    ELSE Goto(p, [c EXCEPT !.fx_rates = (c.from_currency :> c.rate) @@ @,
                           !.currencies = @ \ {c.from_currency}],
              "ar_next", {})

\* The entry fetch_prices stores for a ticker whose fetch_price raised.
error_entry(ticker, err) ==
    [ticker |-> ticker, price |-> NoPrice, currency |-> "None", error |-> err]

fetch_price_done_mutant(p, c, entry, err) ==
    IF c.op = "fetch_price"
    THEN Return(p, [c EXCEPT !.entry = entry],
                IF err = "none" THEN "ok" ELSE err)
    ELSE IF err # "none"
    THEN Return(p, c, err)
    ELSE LET rest == Tail(c.tickers)
             c2 == [c EXCEPT !.results = (c.ticker :> entry) @@ @,
                             !.tickers = rest, !.info = NoInfo,
                             !.ticker = IF rest = <<>> THEN "" ELSE Head(rest)]
         IN  IF rest = <<>>
             THEN fetch_prices_return(p, c2)
             ELSE Goto(p, c2, "fp_next", {})

\* fetch_price ends for the current ticker, with its result or the error it
\* raised: fetch_price returns or raises; fetch_prices stores the entry (the
\* error entry when it caught an exception) and goes on with the next ticker.
fetch_price_done(p, c, entry, err) ==
    IF c.op = "fetch_price"
    THEN Return(p, [c EXCEPT !.entry = entry],
                IF err = "none" THEN "ok" ELSE err)
    ELSE LET stored == IF err = "none" THEN entry
                       ELSE error_entry(c.ticker, err)
             rest == Tail(c.tickers)
             c2 == [c EXCEPT !.results = (c.ticker :> stored) @@ @,
                             !.tickers = rest, !.info = NoInfo,
                             !.ticker = IF rest = <<>> THEN "" ELSE Head(rest)]
         IN  IF rest = <<>>
             THEN fetch_prices_return(p, c2)
             ELSE Goto(p, c2, "fp_next", {})

\* fetch_price up to its cache check.
fetch_price_begin(p, c) ==
    LET cached == get_cached_price(db, now, c.ticker)
    IN  /\ UNCHANGED <<db, wdb, lock>>
        /\ IF cached # {}
           THEN fetch_price_done(p, c,
                    [ticker |-> c.ticker, price |-> TheRow(cached).price,
                     currency |-> TheRow(cached).currency, cached |-> TRUE],
                    "none")
           ELSE Goto(p, c, "fp_source", {})

fetch_price_call(p, ticker) ==
    /\ pc[p] = "idle"
    /\ fetch_price_begin(p, [op |-> "fetch_price", ticker |-> ticker,
                             entry |-> NoEntry, info |-> NoInfo,
                             price |-> NoPrice, currency |-> "None"])

fetch_price_source_mutant(p, info) ==
    LET c == [call[p] EXCEPT !.info = info]
        err == source_error(info, "PriceUnavailable")
        stale == select_price_cache(db, c.ticker)
    IN  /\ pc[p] = "fp_source"
        /\ UNCHANGED <<db, wdb, lock>>
        /\ IF err # "none" /\ stale # {}
           THEN fetch_price_done(p, c,
                    [ticker |-> c.ticker, price |-> TheRow(stale).price,
                     currency |-> TheRow(stale).currency, cached |-> TRUE],
                    "none")
           ELSE IF err # "none"
           THEN fetch_price_done(p, c, NoEntry, err)
           ELSE Goto(p, [c EXCEPT !.price = source_value(info),
                                  !.currency = info.currency],
                     "fp_update", {})

\* The lookup at the data source; the call keeps what the source replied.
fetch_price_source(p, info) ==
    LET c == [call[p] EXCEPT !.info = info]
        err == source_error(info, "PriceUnavailable")
    IN  /\ pc[p] = "fp_source"
        /\ UNCHANGED <<db, wdb, lock>>
        /\ IF err # "none"
           THEN fetch_price_done(p, c, NoEntry, err)
           ELSE Goto(p, [c EXCEPT !.price = source_value(info),
                                  !.currency = info.currency],
                     "fp_update", {})

\* _update_cache, then the return with cached = False.
fetch_price_update(p) ==
    LET c == call[p]
    IN  /\ pc[p] = "fp_update"
        /\ lock = NoProc
        /\ db' = Commit(db, update_price_cache(db, now, c.ticker, c.price,
                                              c.currency))
        /\ wdb' = db'
        /\ UNCHANGED lock
        /\ fetch_price_done(p, c,
                [ticker |-> c.ticker, price |-> c.price,
                 currency |-> c.currency, cached |-> FALSE], "none")

\* _update_cache fails: its connection rolls back and the exception leaves
\* fetch_price.
fetch_price_update_error(p) ==
    /\ pc[p] = "fp_update"
    /\ UNCHANGED <<db, wdb, lock>>
    /\ fetch_price_done(p, call[p], NoEntry, "StorageError")

\* fetch_prices: the loop starts with the first ticker, or returns {}.
fetch_prices_call(p, tickers) ==
    LET c == [op |-> "fetch_prices", requested |-> tickers, tickers |-> tickers,
              ticker |-> IF tickers = <<>> THEN "" ELSE Head(tickers),
              results |-> NoResults, info |-> NoInfo, price |-> NoPrice,
              currency |-> "None"]
    IN  /\ pc[p] = "idle"
        /\ IF tickers = <<>>
           THEN UNCHANGED <<db, wdb, lock>> /\ Return(p, c, "ok")
           ELSE fetch_price_begin(p, c)

\* The next iteration of the loop of fetch_prices.
fetch_prices_next(p) ==
    /\ pc[p] = "fp_next"
    /\ fetch_price_begin(p, call[p])

\* Mutant: equal currencies are looked up like any other pair.
fetch_rate_begin_mutant(p, c) ==
    LET cached == get_cached_rate(db, now, c.from_currency, c.to_currency)
    IN  /\ UNCHANGED <<db, wdb, lock>>
        /\ IF cached # {}
           THEN fetch_rate_done(p, [c EXCEPT !.rate = TheRow(cached).rate],
                                "none")
           ELSE Goto(p, c, "fr_source", {})

\* fetch_rate up to its cache check.
fetch_rate_begin(p, c) ==
    LET from_currency == c.from_currency
        to_currency == c.to_currency
        cached == get_cached_rate(db, now, from_currency, to_currency)
    IN  /\ UNCHANGED <<db, wdb, lock>>
        /\ IF from_currency = to_currency
           THEN fetch_rate_done(p, [c EXCEPT !.rate = Rat(1)], "none")
           ELSE IF cached # {}
           THEN fetch_rate_done(p, [c EXCEPT !.rate = TheRow(cached).rate],
                                "none")
           ELSE Goto(p, c, "fr_source", {})

fetch_rate_call(p, from_currency, to_currency) ==
    /\ pc[p] = "idle"
    /\ fetch_rate_begin(p, [op |-> "fetch_rate",
                            from_currency |-> from_currency,
                            to_currency |-> to_currency, info |-> NoInfo,
                            rate |-> NoPrice])

fetch_rate_source(p, info) ==
    LET c == [call[p] EXCEPT !.info = info]
        err == source_error(info, "RateUnavailable")
    IN  /\ pc[p] = "fr_source"
        /\ UNCHANGED <<db, wdb, lock>>
        /\ IF err # "none"
           THEN fetch_rate_done(p, c, err)
           ELSE Goto(p, [c EXCEPT !.rate = source_value(info)], "fr_update", {})

fetch_rate_update(p) ==
    LET c == call[p]
    IN  /\ pc[p] = "fr_update"
        /\ lock = NoProc
        /\ db' = Commit(db, update_rate_cache(db, now, c.from_currency,
                                             c.to_currency, c.rate))
        /\ wdb' = db'
        /\ UNCHANGED lock
        /\ fetch_rate_done(p, c, "none")

fetch_rate_update_error(p) ==
    /\ pc[p] = "fr_update"
    /\ UNCHANGED <<db, wdb, lock>>
    /\ fetch_rate_done(p, call[p], "StorageError")

\* Time passes.
Tick(step, limit) ==
    /\ now + step <= limit
    /\ now' = now + step
    /\ result' = NoResult
    /\ UNCHANGED <<db, wdb, lock, pc, call, existing>>

---------------------------------------------------------------------------
(* portfolio_service: the summaries *)

\* ORDER BY ticker: the rows as a list.
by_ticker(rows) ==
    LET tickers == SelectSeq(TickerOrder,
                             LAMBDA t : \E r \in rows : r.ticker = t)
    IN  [i \in DOMAIN tickers |-> TheRow({r \in rows : r.ticker = tickers[i]})]

\* ORDER BY id: the rows as a list.
by_id(rows) ==
    LET ids == SelectSeq([i \in 1..(Cardinality(accounts) + Cardinality(users))
                            |-> i],
                         LAMBDA i : \E r \in rows : r.id = i)
    IN  [i \in DOMAIN ids |-> TheRow({r \in rows : r.id = ids[i]})]

\* SELECT * FROM cash_positions WHERE account_id = ?
list_cash(d, account_id) == {r \in d.cash_positions : r.account_id = account_id}

\* One entry of holding_details (lines 42-62); prices is what fetch_prices
\* returned and NoPrice stands for None.
holding_detail(h, prices) ==
    LET price_info == IF h.ticker \in DOMAIN prices THEN prices[h.ticker]
                      ELSE NoEntry
        current_price == price_info.price
        market_value == RMul(current_price, Rat(h.shares))
        cost_basis == RMul(h.avg_cost, Rat(h.shares))
    IN  IF current_price # NoPrice
        THEN [holding |-> h, current_price |-> current_price,
              market_value |-> market_value,
              unrealized_pnl |-> RSub(market_value, cost_basis),
              pnl_pct |-> IF RLt(Rat(0), h.avg_cost)
                          THEN RMul(RSub(RDiv(current_price, h.avg_cost),
                                         Rat(1)), Rat(100))
                          ELSE Rat(0)]
        ELSE [holding |-> h, current_price |-> NoPrice,
              market_value |-> NoPrice, unrealized_pnl |-> NoPrice,
              pnl_pct |-> NoPrice]

\* total_stock_value after the first n holdings of the loop of lines 41-62.
RECURSIVE total_stock_value(_, _)
total_stock_value(details, n) ==
    IF n = 0 THEN Rat(0)
    ELSE IF details[n].current_price # NoPrice
    THEN RAdd(total_stock_value(details, n - 1), details[n].market_value)
    ELSE total_stock_value(details, n - 1)

RECURSIVE total_cash_mutant(_, _)
total_cash_mutant(cash_positions, currency) ==
    IF cash_positions = {} THEN Rat(0)
    ELSE LET cp == CHOOSE r \in cash_positions : TRUE
         IN  RAdd(cp.balance, total_cash_mutant(cash_positions \ {cp}, currency))

\* sum(cp.balance for cp in cash_positions if cp.currency == currency)
RECURSIVE total_cash(_, _)
total_cash(cash_positions, currency) ==
    IF cash_positions = {} THEN Rat(0)
    ELSE LET cp == CHOOSE r \in cash_positions : TRUE
             rest == total_cash(cash_positions \ {cp}, currency)
         IN  IF cp.currency = currency THEN RAdd(cp.balance, rest) ELSE rest

\* What get_account_summary returns (lines 38-75).
account_summary(account, holdings, cash_positions, prices) ==
    LET details == [i \in DOMAIN holdings |-> holding_detail(holdings[i], prices)]
        stock == total_stock_value(details, Len(details))
        cash == total_cash(cash_positions, account.currency)
    IN  [account |-> account, holdings |-> details, cash |-> cash_positions,
         total_stock_value |-> stock, total_cash_value |-> cash,
         total_value |-> RAdd(stock, cash), currency |-> account.currency]

NoAccount ==
    [id |-> NULL, user_id |-> NULL, account_name |-> "", market |-> "",
     currency |-> "", account_type |-> "", is_active |-> FALSE]
NoUser == [id |-> NULL, username |-> ""]
NoRates == [c \in {} |-> NoPrice]
NoSummary == [grand_total |-> NoPrice]

\* The locals of a summary call, those of the calls it makes included.
summary_call(op, account_id, username, base_currency) ==
    [op |-> op, account_id |-> account_id, username |-> username,
     base_currency |-> base_currency,
     account |-> NoAccount, holdings |-> <<>>, cash |-> {},
     requested |-> <<>>, tickers |-> <<>>, ticker |-> "",
     results |-> NoResults, info |-> NoInfo, price |-> NoPrice,
     currency |-> "None",
     rates_for |-> "none", currencies |-> {}, fx_rates |-> NoRates,
     from_currency |-> "", to_currency |-> "", rate |-> NoPrice,
     user |-> NoUser, accounts |-> <<>>, summaries |-> <<>>,
     grand_total |-> Rat(0),
     users |-> <<>>, user_summaries |-> <<>>, total |-> Rat(0),
     summary |-> NoSummary]

SummaryOps == {"get_account_summary", "get_user_summary", "get_total_summary"}

\* get_account_summary, lines 30-31: get_account, which raises for an unknown
\* id, and list_holdings, each on a connection of its own.
get_account_summary_begin(p, c, account_id) ==
    LET rows == get_account(account_id)
        holdings == by_ticker(list_holdings(db, account_id))
        tickers == [i \in DOMAIN holdings |-> holdings[i].ticker]
        c2 == [c EXCEPT !.account = TheRow(rows), !.holdings = holdings,
                        !.requested = tickers, !.tickers = tickers,
                        !.ticker = IF tickers = <<>> THEN "" ELSE Head(tickers),
                        !.results = NoResults, !.info = NoInfo]
    IN  /\ UNCHANGED <<db, wdb, lock>>
        /\ IF rows = {}
           THEN Return(p, c, "AccountNotFound")
           ELSE Goto(p, c2, "as_cash", {})

\* get_account_summary, lines 32-36: list_cash on the next connection, then
\* fetch_prices up to its first cache check.
get_account_summary_cash(p) ==
    LET c == [call[p] EXCEPT !.cash = list_cash(db, call[p].account.id)]
    IN  /\ pc[p] = "as_cash"
        /\ IF c.tickers = <<>>
           THEN UNCHANGED <<db, wdb, lock>> /\ Goto(p, c, "as_return", {})
           ELSE fetch_price_begin(p, c)

get_account_summary_call(p, account_id) ==
    /\ pc[p] = "idle"
    /\ get_account_summary_begin(p,
            summary_call("get_account_summary", account_id, "", ""),
            account_id)

get_account_summary_return_mutant(p) ==
    LET c == call[p]
        summary == account_summary(c.account, c.holdings, c.cash, c.results)
    IN  /\ pc[p] = "as_return"
        /\ c.op = "get_account_summary"
        /\ db' = [db EXCEPT !.cash_positions =
                    {r \in @ : r.account_id # c.account.id} \cup
                    {[account_id |-> c.account.id,
                      currency |-> c.account.currency,
                      balance |-> summary.total_value]}]
        /\ wdb' = db'
        /\ UNCHANGED lock
        /\ Return(p, [c EXCEPT !.summary = summary], "ok")

\* Lines 38-75 of get_account_summary, and for an account of get_user_summary
\* the rest of the loop body (lines 101-106).
get_account_summary_return(p) ==
    LET c == call[p]
        summary == account_summary(c.account, c.holdings, c.cash, c.results)
        rate == IF c.account.currency \in DOMAIN c.fx_rates
                THEN c.fx_rates[c.account.currency]
                ELSE Rat(1)
        converted_total == RMul(summary.total_value, rate)
    IN  /\ pc[p] = "as_return"
        /\ UNCHANGED <<db, wdb, lock>>
        /\ IF c.op = "get_account_summary"
           THEN Return(p, [c EXCEPT !.summary = summary], "ok")
           ELSE Goto(p, [c EXCEPT
                    !.summaries = Append(@,
                        [converted_total |-> converted_total,
                         fx_rate |-> rate] @@ summary),
                    !.grand_total = RAdd(@, converted_total)],
                    "us_next", {})

get_user_summary_begin_mutant(p, c, username) ==
    LET rows == {u \in users : u.username = username}
        user == TheRow(rows)
    IN  /\ UNCHANGED <<db, wdb, lock>>
        /\ IF rows = {}
           THEN Return(p, c, "UserNotFound")
           ELSE Goto(p, [c EXCEPT !.user = user,
                                  !.accounts = by_id({r \in db.accounts :
                                                        r.user_id = user.id}),
                                  !.summaries = <<>>, !.grand_total = Rat(0),
                                  !.rates_for = "user",
                                  !.currencies = CURRENCIES,
                                  !.fx_rates = NoRates],
                     "ar_next", {})

\* get_user_summary up to the loop of get_all_rates (lines 89-93).
get_user_summary_begin(p, c, username) ==
    LET rows == {u \in users : u.username = username}
        user == TheRow(rows)
    IN  /\ UNCHANGED <<db, wdb, lock>>
        /\ IF rows = {}
           THEN Return(p, c, "UserNotFound")
           ELSE Goto(p, [c EXCEPT !.user = user,
                                  !.accounts = by_id(list_accounts(db, user.id)),
                                  !.summaries = <<>>, !.grand_total = Rat(0),
                                  !.rates_for = "user",
                                  !.currencies = CURRENCIES,
                                  !.fx_rates = NoRates],
                     "ar_next", {})

get_user_summary_call(p, username, base_currency) ==
    /\ pc[p] = "idle"
    /\ get_user_summary_begin(p,
            summary_call("get_user_summary", NULL, username, base_currency),
            username)

\* One iteration of `for curr in CURRENCIES` in get_all_rates; CURRENCIES is a
\* set, so the order of the iterations is not fixed.
get_all_rates_next(p, curr) ==
    LET c == call[p]
    IN  /\ pc[p] = "ar_next"
        /\ curr \in c.currencies
        /\ IF curr = c.base_currency
           THEN /\ UNCHANGED <<db, wdb, lock>>
                /\ Goto(p, [c EXCEPT !.fx_rates = (curr :> Rat(1)) @@ @,
                                     !.currencies = @ \ {curr}],
                        "ar_next", {})
           ELSE fetch_rate_begin(p, [c EXCEPT !.from_currency = curr,
                                              !.to_currency = c.base_currency,
                                              !.info = NoInfo,
                                              !.rate = NoPrice])

\* get_all_rates returns to the summary that called it.
get_all_rates_return(p) ==
    LET c == call[p]
    IN  /\ pc[p] = "ar_next"
        /\ c.currencies = {}
        /\ UNCHANGED <<db, wdb, lock>>
        /\ Goto(p, c, IF c.rates_for = "user" THEN "us_next" ELSE "ts_next", {})

\* `for acc in accounts` of get_user_summary: the next account, or after the
\* last one the return (lines 108-113), to get_total_summary if it called.
get_user_summary_next(p) ==
    LET c == call[p]
        user_sum == [user |-> c.user, accounts |-> c.summaries,
                     grand_total |-> c.grand_total,
                     base_currency |-> c.base_currency]
    IN  /\ pc[p] = "us_next"
        /\ IF c.accounts # <<>>
           THEN get_account_summary_begin(p, [c EXCEPT !.accounts = Tail(@)],
                                          Head(c.accounts).id)
           ELSE /\ UNCHANGED <<db, wdb, lock>>
                /\ IF c.op = "get_user_summary"
                   THEN Return(p, [c EXCEPT !.summary = user_sum], "ok")
                   ELSE Goto(p, [c EXCEPT
                            !.user_summaries = Append(@, user_sum),
                            !.total = RAdd(@, user_sum.grand_total)],
                            "ts_next", {})

\* get_total_summary up to the loop of its get_all_rates (lines 128-129).
get_total_summary_call(p, base_currency) ==
    /\ pc[p] = "idle"
    /\ UNCHANGED <<db, wdb, lock>>
    /\ Goto(p, [summary_call("get_total_summary", NULL, "", base_currency)
                    EXCEPT !.users = by_id(users), !.rates_for = "total",
                           !.currencies = CURRENCIES],
            "ar_next", {})

\* `for u in users` of get_total_summary, and after the last user the return.
get_total_summary_next(p) ==
    LET c == call[p]
    IN  /\ pc[p] = "ts_next"
        /\ IF c.users # <<>>
           THEN get_user_summary_begin(p, [c EXCEPT !.users = Tail(@)],
                                       Head(c.users).username)
           ELSE /\ UNCHANGED <<db, wdb, lock>>
                /\ Return(p, [c EXCEPT !.summary =
                            [users |-> c.user_summaries,
                             grand_total |-> c.total,
                             base_currency |-> c.base_currency]], "ok")

---------------------------------------------------------------------------
(* Inputs *)

Tickers == {"2330.TW"}
Prices == {Rat(2), <<5, 2>>}
Charges == {<<0, 0>>, <<1, 2>>}      \* <<fee, tax>>

TradeArgs(shares, prices, charges) ==
    {a \in [account_id : {1}, ticker : Tickers, action : TRANSACTION_ACTIONS,
            shares : shares, price : prices, fee : {c[1] : c \in charges},
            tax : {c[2] : c \in charges}, notes : {NULL}] :
        <<a.fee, a.tax>> \in charges}

Kwargs == {[shares |-> 2], [status |-> "PENDING"],
           [status |-> "PENDING", shares |-> 2]}

---------------------------------------------------------------------------
(* Specification: callers p1 and p2 interleave on the ledgers *)

Init ==
    /\ db = EmptyDb
    /\ wdb = EmptyDb
    /\ lock = NoProc
    /\ pc = [p \in Procs |-> "idle"]
    /\ call = [p \in Procs |-> NoCall]
    /\ existing = [p \in Procs |-> {}]
    /\ result = NoResult
    /\ now = 0

Trade(p, cap, shares, prices, charges) ==
    \/ /\ Cardinality(db.transactions) < cap
       /\ \E a \in TradeArgs(shares, prices, charges) : record_transaction_call(p, a)
    \/ record_transaction_holding(p)
    \/ record_transaction_cash(p)
    \/ record_transaction_insert(p)

Orders(p, prices, charges) ==
    \/ /\ Cardinality(db.planned_orders) < MaxOrders
       /\ \E action \in TRANSACTION_ACTIONS :
            create_order(p, 1, "2330.TW", action, 1, NoPrice, "NULL", "NORMAL")
    \/ /\ Cardinality(db.transactions) < MaxExec
       /\ \E o \in 1..MaxOrders, price \in prices, c \in charges :
            execute_order_call(p, o, price, c[1], c[2])
    \/ execute_order_record(p)
    \/ execute_order_update(p)
    \/ \E o \in 1..MaxOrders : cancel_order_call(p, o)
    \/ cancel_order_update(p)
    \/ \E o \in 1..MaxOrders, kwargs \in Kwargs : update_order_call(p, o, kwargs)
    \/ update_order_update(p)

Cash(p, cap) ==
    \/ /\ Cardinality(db.cash_transactions) < cap
       /\ record_cash_transaction_call(p, 1, "TWD", Rat(10), "DEPOSIT")
    \/ record_cash_transaction_adjust(p)
    \/ record_cash_transaction_insert(p)

Next ==
    \E p \in Procs :
        \/ Trade(p, MaxTx, {1, 2}, {Rat(2)}, {<<1, 2>>})
        \/ Cash(p, MaxCashTx)
        \/ storage_error(p)

Spec == Init /\ [][Next]_vars

(* Specification: callers p1 and p2 interleave on the planned orders.  *)
(* Storage failures are explored in Spec and SpecSeq.                  *)

NextOrder ==
    \E p \in Procs :
        \/ Orders(p, {Rat(2)}, {<<1, 2>>})
        \/ record_transaction_holding(p)
        \/ record_transaction_cash(p)
        \/ record_transaction_insert(p)

SpecOrder == Init /\ [][NextOrder]_vars

(* Specification: one caller, one call at a time *)

NextSeq ==
    \/ Trade("p1", MaxSeqTx, {1, 2}, Prices, Charges)
    \/ Cash("p1", MaxCashTx)
    \/ storage_error("p1")

SpecSeq == Init /\ [][NextSeq]_vars

(* Specification: one caller trades, adds holdings by hand and reconciles *)
(* broker snapshots.                                                      *)

SyncTickers == {"2330.TW", "AAPL"}
AddShares == {-1, 0, 1}
SnapshotItems ==
    [ticker : {"2330.TW"}, shares : {0, 1, 2}, avg_cost : {Rat(2), <<401, 200>>}]
        \cup [ticker : {"AAPL"}, shares : {2}, avg_cost : {Rat(2)}]
Snapshots ==
    {<<>>} \cup {<<a>> : a \in SnapshotItems}
           \cup {<<a, b>> : a \in SnapshotItems, b \in SnapshotItems}

Manual(p) ==
    \/ /\ \A r \in db.holdings : Abs(r.shares) <= MaxHeld
       /\ \E ticker \in SyncTickers, shares \in AddShares :
            add_holding_call(p, 1, ticker, shares, Rat(2))
    \/ add_holding_update(p)
    \/ \E ticker \in SyncTickers : remove_holding_call(p, 1, ticker)

Sync(p) ==
    \/ \E holdings_data \in Snapshots :
            sync_broker_holdings_call(p, 1, holdings_data)
    \/ sync_broker_holdings_call(p, 2, <<>>)
    \/ sync_broker_holdings_upsert(p)
    \/ sync_broker_holdings_remove(p)

NextSync ==
    \/ Manual("p1")
    \/ Sync("p1")
    \/ Trade("p1", MaxSyncTx, {1}, {Rat(2)}, {<<0, 0>>})
    \/ storage_error("p1")

SpecSync == Init /\ [][NextSync]_vars

(* Specification: one caller uses every service that writes to the store: *)
(* trades, cash movements, orders, reconciliation, manual sets and account *)
(* deactivation.                                                           *)

LedgerSnapshots ==
    {<<>>, <<[ticker |-> "2330.TW", shares |-> 1, avg_cost |-> Rat(2)]>>}
LedgerBalances == {[currency |-> "TWD", balance |-> Rat(10)]}

LedgerOrders(p) ==
    \/ /\ Cardinality(db.planned_orders) < MaxLedgerTx
       /\ create_order(p, 1, "2330.TW", "BUY", 1, NoPrice, "NULL", "NORMAL")
    \/ /\ Cardinality(db.transactions) < MaxLedgerTx
       /\ \E o \in 1..MaxLedgerTx : execute_order_call(p, o, Rat(2), 0, 0)
    \/ execute_order_record(p)
    \/ execute_order_update(p)
    \/ \E o \in 1..MaxLedgerTx : cancel_order_call(p, o)
    \/ cancel_order_update(p)
    \/ \E o \in 1..MaxLedgerTx : update_order_call(p, o, [shares |-> 2])
    \/ update_order_update(p)

LedgerSets(p) ==
    \/ /\ \A r \in db.holdings : Abs(r.shares) <= MaxHeld
       /\ add_holding_call(p, 1, "2330.TW", 1, Rat(2))
    \/ add_holding_update(p)
    \/ remove_holding_call(p, 1, "2330.TW")
    \/ \E holdings_data \in LedgerSnapshots :
            sync_broker_holdings_call(p, 1, holdings_data)
    \/ sync_broker_holdings_upsert(p)
    \/ sync_broker_holdings_remove(p)
    \/ \E b \in LedgerBalances : set_cash_call(p, "set_cash", 1, b.currency, b.balance)
    \/ \E b \in LedgerBalances : sync_broker_cash(p, 1, b)
    \/ deactivate_account(p, 1)

NextLedger ==
    \/ Trade("p1", MaxLedgerTx, {1}, {Rat(2)}, {<<0, 0>>})
    \/ Cash("p1", MaxLedgerTx)
    \/ LedgerOrders("p1")
    \/ LedgerSets("p1")

SpecLedger == Init /\ [][NextLedger]_vars

(* Specification: one caller records trades and places orders with well-formed *)
(* and malformed arguments.                                                    *)

InputArgs ==
    [account_id : {1, 2}, ticker : Tickers, action : {"BUY", "SELL", "HOLD"},
     shares : {-1, 0, 1}, price : {Rat(2), Rat(0), Rat(-1)}, fee : {0},
     tax : {0}, notes : {NULL}]

Input(p) ==
    \/ /\ Cardinality(db.transactions) < MaxInputTx
       /\ \E a \in InputArgs : record_transaction_call(p, a)
    \/ record_transaction_holding(p)
    \/ record_transaction_cash(p)
    \/ record_transaction_insert(p)
    \/ /\ Cardinality(db.planned_orders) < MaxOrders
       /\ \E action \in {"BUY", "HOLD"}, priority \in {"NORMAL", "URGENT"} :
            create_order(p, 1, "2330.TW", action, 1, NoPrice, "NULL", priority)

NextInput ==
    \/ Input("p1")
    \/ Cash("p1", MaxCashTx)
    \/ storage_error("p1")

SpecInput == Init /\ [][NextInput]_vars

(* Specification: one caller places orders and executes them, again after a *)
(* storage failure.                                                         *)

Retry(p) ==
    \/ /\ Cardinality(db.planned_orders) < MaxOrders
       /\ \E action \in TRANSACTION_ACTIONS :
            create_order(p, 1, "2330.TW", action, 1, NoPrice, "NULL", "NORMAL")
    \/ /\ Cardinality(db.transactions) < MaxRetryTx
       /\ \E o \in 1..MaxOrders, price \in Prices, c \in Charges :
            execute_order_call(p, o, price, c[1], c[2])
    \/ execute_order_record(p)
    \/ record_transaction_holding(p)
    \/ record_transaction_cash(p)
    \/ record_transaction_insert(p)
    \/ execute_order_update(p)

NextRetry ==
    \/ Retry("p1")
    \/ Trade("p1", MaxRetryTx, {1}, {Rat(2)}, {<<0, 0>>})
    \/ storage_error("p1")

SpecRetry == Init /\ [][NextRetry]_vars

(* Specification: callers p1 and p2 move cash, with well-formed and *)
(* malformed currencies and categories, and storage failures.        *)

CashCurrencies == {"TWD", "EUR"}
CashAmounts == {Rat(10), Rat(-5)}
CashCategories == {"DEPOSIT", "BONUS"}

CashMove(p) ==
    \/ /\ Cardinality(db.cash_transactions) < MaxCashLog
       /\ \E currency \in CashCurrencies, amount \in CashAmounts,
             category \in CashCategories :
                record_cash_transaction_call(p, 1, currency, amount, category)
    \/ record_cash_transaction_adjust(p)
    \/ record_cash_transaction_insert(p)

NextCash ==
    \E p \in Procs :
        \/ CashMove(p)
        \/ storage_error(p)

SpecCash == Init /\ [][NextCash]_vars

(* Specification: one caller looks prices and rates up while time passes *)

TickSteps == {15, 46}
SourceInfo ==
    {[lastPrice |-> Rat(580), previousClose |-> Rat(575), currency |-> "TWD",
      raises |-> FALSE],
     [lastPrice |-> Rat(0), previousClose |-> Rat(575), currency |-> "TWD",
      raises |-> FALSE],
     [lastPrice |-> NoPrice, previousClose |-> NoPrice, currency |-> "TWD",
      raises |-> FALSE],
     [lastPrice |-> Rat(0), previousClose |-> NoPrice, currency |-> "TWD",
      raises |-> FALSE],
     [lastPrice |-> NoPrice, previousClose |-> NoPrice, currency |-> "TWD",
      raises |-> TRUE]}
TickerLists ==
    {<<>>, <<"2330.TW">>, <<"2330.TW", "AAPL">>, <<"AAPL", "2330.TW">>,
     <<"AAPL", "AAPL">>}
CurrencyPairs == {<<"USD", "TWD">>, <<"TWD", "TWD">>}

MarketPrices(p) ==
    \/ \E ticker \in SyncTickers : fetch_price_call(p, ticker)
    \/ \E info \in SourceInfo : fetch_price_source(p, info)
    \/ fetch_price_update(p)
    \/ fetch_price_update_error(p)
    \/ \E tickers \in TickerLists : fetch_prices_call(p, tickers)
    \/ fetch_prices_next(p)

Rates(p) ==
    \/ \E pair \in CurrencyPairs : fetch_rate_call(p, pair[1], pair[2])
    \/ \E info \in SourceInfo : fetch_rate_source(p, info)
    \/ fetch_rate_update(p)
    \/ fetch_rate_update_error(p)

NextCache ==
    \/ \E step \in TickSteps : Tick(step, MaxTime)
    \/ MarketPrices("p1")
    \/ Rates("p1")

SpecCache == Init /\ [][NextCache]_vars

(* Specification: one caller plans orders with valid and invalid fields,     *)
(* updates, cancels and executes them.                                       *)

PlanActions == {"BUY", "SELL", "HOLD"}
PlanShares == {0, 1}
PlanTargets == {NoPrice, Rat(5)}
PlanPriorities == {"NORMAL", "URGENT"}
PlanKwargs ==
    {[shares |-> 0], [action |-> "HOLD"], [priority |-> "URGENT"],
     [target_price |-> Rat(9)]}

Plan(p) ==
    \/ /\ Cardinality(db.planned_orders) < MaxOrders
       /\ \E action \in PlanActions, shares \in PlanShares,
             target_price \in PlanTargets, priority \in PlanPriorities :
             create_order(p, 1, "2330.TW", action, shares, target_price,
                          "NULL", priority)
    \/ /\ Cardinality(db.transactions) < MaxExec
       /\ \E o \in 1..MaxOrders, c \in Charges :
             execute_order_call(p, o, Rat(2), c[1], c[2])
    \/ execute_order_record(p)
    \/ execute_order_update(p)
    \/ \E o \in 1..MaxOrders : cancel_order_call(p, o)
    \/ cancel_order_update(p)
    \/ \E o \in 1..MaxOrders, kwargs \in PlanKwargs :
          update_order_call(p, o, kwargs)
    \/ update_order_update(p)

NextPlan ==
    \/ Plan("p1")
    \/ /\ select_holding(db, 1, "2330.TW") = {}
       /\ add_holding_call("p1", 1, "2330.TW", 1, Rat(2))
    \/ add_holding_update("p1")
    \/ record_transaction_holding("p1")
    \/ record_transaction_cash("p1")
    \/ record_transaction_insert("p1")

SpecPlan == Init /\ [][NextPlan]_vars

(* Specification: one caller plans two orders and updates, cancels and      *)
(* executes them.                                                           *)

EditKwargs ==
    {[shares |-> 2], [target_price |-> Rat(9), reason |-> "NULL"],
     [status |-> "EXECUTED", reason |-> "r"], [target_price |-> NoPrice]}

NextEdit ==
    \/ /\ Cardinality(db.planned_orders) < MaxEdit
       /\ create_order("p1", 1, "2330.TW", "BUY", 1, Rat(5), "NULL", "NORMAL")
    \/ \E o \in 1..MaxEdit, kwargs \in EditKwargs :
          update_order_call("p1", o, kwargs)
    \/ update_order_update("p1")
    \/ \E o \in 1..MaxEdit : cancel_order_call("p1", o)
    \/ cancel_order_update("p1")
    \/ /\ Cardinality(db.transactions) < MaxExec
       /\ \E o \in 1..MaxEdit : execute_order_call("p1", o, Rat(2), 0, 0)
    \/ execute_order_record("p1")
    \/ record_transaction_holding("p1")
    \/ record_transaction_cash("p1")
    \/ record_transaction_insert("p1")
    \/ execute_order_update("p1")

SpecEdit == Init /\ [][NextEdit]_vars

(* Specification: one caller opens accounts for known and unknown users and *)
(* markets, deactivates accounts and trades on them.                        *)

OpenUsers == {1, 2, 3}
OpenNames == {"a", "b"}
OpenMarkets == {"TW", "us", "SG", "JP"}
OpenTypes == {"brokerage", "bank", "crypto"}
OpenTrades ==
    [account_id : 1..(MaxAccounts + 1), ticker : {"AAPL"}, action : {"BUY"},
     shares : {1}, price : {Rat(2)}, fee : {0}, tax : {0}, notes : {NULL}]

NextOpen ==
    \/ /\ Cardinality(db.accounts) < MaxAccounts
       /\ \E user_id \in OpenUsers, account_name \in OpenNames,
             market \in OpenMarkets, account_type \in OpenTypes :
             create_account("p1", user_id, account_name, market, account_type)
    \/ \E account_id \in 1..MaxAccounts : deactivate_account("p1", account_id)
    \/ /\ Cardinality(db.transactions) < MaxAccounts
       /\ \E a \in OpenTrades : record_transaction_call("p1", a)
    \/ record_transaction_holding("p1")
    \/ record_transaction_cash("p1")
    \/ record_transaction_insert("p1")

SpecOpen == Init /\ [][NextOpen]_vars

(* Specification: one caller deposits cash, sets balances by hand and syncs *)
(* them from broker snapshots.                                              *)

SetAccounts == {1, 2}
SetCurrencies == {"TWD", "USD", "EUR"}
SetBalances == {Rat(7), Rat(0), <<-5, 2>>}

NextSet ==
    \/ Cash("p1", MaxSetLog)
    \/ \E account_id \in SetAccounts, currency \in SetCurrencies,
          balance \in SetBalances :
          \/ set_cash_call("p1", "set_cash", account_id, currency, balance)
          \/ sync_broker_cash("p1", account_id,
                              [currency |-> currency, balance |-> balance])

SpecSet == Init /\ [][NextSet]_vars

(* Specification: one caller opens accounts, sets holdings and cash by hand *)
(* and asks for the summaries, the data source answering or not.           *)

ValueInfo ==
    {[lastPrice |-> Rat(3), previousClose |-> Rat(3), currency |-> "USD",
      raises |-> FALSE],
     [lastPrice |-> NoPrice, previousClose |-> NoPrice, currency |-> "USD",
      raises |-> FALSE]}
ValueAccounts == {<<1, "b", "US">>, <<2, "a", "US">>}   \* user, name, market
ValueHoldings == {<<1, "2330.TW">>, <<1, "AAPL">>, <<2, "AAPL">>}
ValueCash == {<<1, "TWD">>, <<1, "USD">>}
Usernames == {"u1", "u2", "nobody"}

ValueSets(p) ==
    \/ /\ Cardinality(db.accounts) < MaxAccounts
       /\ \E a \in ValueAccounts : create_account(p, a[1], a[2], a[3], "brokerage")
    \/ \E account_id \in {1, 2} : deactivate_account(p, account_id)
    \/ \E h \in ValueHoldings :
          /\ select_holding(db, h[1], h[2]) = {}
          /\ add_holding_call(p, h[1], h[2], 2, Rat(2))
    \/ add_holding_update(p)
    \/ \E b \in ValueCash : set_cash_call(p, "set_cash", b[1], b[2], Rat(7))

Summaries(p) ==
    \/ \E account_id \in 1..(MaxAccounts + 1) :
          get_account_summary_call(p, account_id)
    \/ get_account_summary_cash(p)
    \/ get_account_summary_return(p)
    \/ \E username \in Usernames : get_user_summary_call(p, username, "TWD")
    \/ \E curr \in CURRENCIES : get_all_rates_next(p, curr)
    \/ get_all_rates_return(p)
    \/ get_user_summary_next(p)
    \/ get_total_summary_call(p, "TWD")
    \/ get_total_summary_next(p)

MarketData(p) ==
    \/ \E info \in ValueInfo : fetch_price_source(p, info)
    \/ fetch_price_update(p)
    \/ fetch_price_update_error(p)
    \/ fetch_prices_next(p)
    \/ \E info \in ValueInfo : fetch_rate_source(p, info)
    \/ fetch_rate_update(p)
    \/ fetch_rate_update_error(p)

NextValue ==
    \/ ValueSets("p1")
    \/ Summaries("p1")
    \/ MarketData("p1")

SpecValue == Init /\ [][NextValue]_vars

(* Specification: caller p2 trades on account 1 while caller p1 asks for the *)
(* summary of the account.  One ticker is traded, so the batch lookup of the *)
(* summary has one iteration.                                                *)

NextView ==
    \/ Trade("p2", MaxViewTx, {1}, {Rat(2)}, {<<0, 0>>})
    \/ get_account_summary_call("p1", 1)
    \/ get_account_summary_cash("p1")
    \/ \E info \in ValueInfo : fetch_price_source("p1", info)
    \/ fetch_price_update("p1")
    \/ fetch_price_update_error("p1")
    \/ get_account_summary_return("p1")

SpecView == Init /\ [][NextView]_vars

(* Specification: callers p1 and p2 look the same ticker and the same       *)
(* currency pair up while time passes, the source giving one of two values  *)
(* or none.                                                                 *)

RaceInfo ==
    ValueInfo \cup {[lastPrice |-> Rat(4), previousClose |-> Rat(3),
                     currency |-> "USD", raises |-> FALSE]}

NextRace ==
    \/ \E p \in Procs :
          \/ fetch_price_call(p, "AAPL")
          \/ \E info \in RaceInfo : fetch_price_source(p, info)
          \/ fetch_price_update(p)
          \/ fetch_price_update_error(p)
          \/ \E pair \in CurrencyPairs : fetch_rate_call(p, pair[1], pair[2])
          \/ \E info \in RaceInfo : fetch_rate_source(p, info)
          \/ fetch_rate_update(p)
          \/ fetch_rate_update_error(p)
    \/ Tick(PRICE_CACHE_TTL_MINUTES + 1, MaxRaceTime)

SpecRace == Init /\ [][NextRace]_vars

(* Specification: one caller looks prices, batches of prices and rates up.  *)
(* The steps of the program are taken when they can be (weak fairness); the *)
(* reply of the data source is not: the lookups pass no timeout to it       *)
(* (price_service.py:30-32, fx_service.py:28-30), so a request the source   *)
(* never answers is never ended by the program.                             *)

LiveCalls(p) ==
    \/ \E ticker \in SyncTickers : fetch_price_call(p, ticker)
    \/ \E tickers \in TickerLists : fetch_prices_call(p, tickers)
    \/ \E pair \in CurrencyPairs : fetch_rate_call(p, pair[1], pair[2])

LiveSource(p) ==
    \/ \E info \in ValueInfo : fetch_price_source(p, info)
    \/ \E info \in ValueInfo : fetch_rate_source(p, info)

LiveSteps(p) ==
    \/ fetch_price_update(p)
    \/ fetch_price_update_error(p)
    \/ fetch_prices_next(p)
    \/ fetch_rate_update(p)
    \/ fetch_rate_update_error(p)

NextLive ==
    \/ LiveCalls("p1")
    \/ LiveSource("p1")
    \/ LiveSteps("p1")
    \/ Tick(PRICE_CACHE_TTL_MINUTES + 1, MaxRaceTime)

SpecLive == Init /\ [][NextLive]_vars /\ WF_vars(LiveSteps("p1"))

---------------------------------------------------------------------------
(* Properties *)

Terminal == {"EXECUTED", "CANCELLED"}

RECURSIVE SumShares(_)
SumShares(S) ==
    IF S = {} THEN 0
    ELSE LET t == CHOOSE y \in S : TRUE IN t.shares + SumShares(S \ {t})

RECURSIVE SumValue(_)
SumValue(S) ==
    IF S = {} THEN Rat(0)
    ELSE LET t == CHOOSE y \in S : TRUE
         IN  RAdd(RMul(Rat(t.shares), t.price), SumValue(S \ {t}))

\* Committed trades of one (account, ticker).
TradesOf(account_id, ticker, action) ==
    {t \in db.transactions :
        t.account_id = account_id /\ t.ticker = ticker /\ t.action = action}

HoldingRows(d, account_id, ticker) ==
    {r \in d.holdings : r.account_id = account_id /\ r.ticker = ticker}

\* Balance of (account, currency) in store d, a missing position counting 0.
Balance(d, account_id, currency) ==
    LET rows == {r \in d.cash_positions :
                    r.account_id = account_id /\ r.currency = currency}
    IN  IF rows = {} THEN Rat(0) ELSE (CHOOSE r \in rows : TRUE).balance

\* In this step caller p starts a call (which may return at once).
Calls(p) == pc[p] = "idle" /\ (pc'[p] # "idle" \/ result'.proc = p)
Started(p) == IF pc'[p] # "idle" THEN call'[p] ELSE result'.call

\* In this step caller p takes a step of record_transaction's with-block.
InTrade(p) == pc[p] \in {"rt_holding", "rt_cash", "rt_insert"} /\ pc'[p] # pc[p]
Committed(p) == pc[p] = "rt_insert" /\ pc'[p] \in {"idle", "eo_update"}
                /\ (pc'[p] = "idle" => result'.out = "ok")

(* C1: record_transaction is all-or-nothing.  Every step of its with-block
   either leaves the committed store as it was, or is the commit, which
   makes the holding change, the cash change and the new transactions row
   visible together; a call that ends in an error has changed nothing. *)
C1_AllOrNothing ==
    [][\A p \in Procs : InTrade(p) =>
        LET a == call[p].args
            cur == (CHOOSE r \in accounts : r.id = a.account_id).currency
            held == update_holding_from_trade(db, existing[p], a.account_id,
                        a.ticker, a.action, a.shares, a.price).db.holdings
        IN  \/ /\ db' = db
               /\ ~Committed(p)
            \/ /\ Committed(p)
               /\ \E t \in db'.transactions :
                    /\ t \notin db.transactions
                    /\ db'.transactions = db.transactions \cup {t}
                    /\ t.account_id = a.account_id /\ t.ticker = a.ticker
                    /\ t.action = a.action /\ t.shares = a.shares
                    /\ t.price = a.price /\ t.fee = a.fee /\ t.tax = a.tax
               /\ db'.holdings = held
               /\ Balance(db', a.account_id, cur) =
                    RAdd(Balance(db, a.account_id, cur),
                         cash_change(a.action, a.shares, a.price, a.fee, a.tax))
               /\ db'.cash_transactions = db.cash_transactions
               /\ db'.planned_orders = db.planned_orders
    ]_vars

\* A call has written its holding and its cash inside the open transaction;
\* the committed store shows neither, and no transactions row yet.
C1_Witness ==
    \E p \in Procs :
        /\ lock = p /\ pc[p] = "rt_insert"
        /\ wdb.holdings # db.holdings
        /\ wdb.cash_positions # db.cash_positions
        /\ wdb.transactions = db.transactions

(* C2: concurrent SELLs never sell more than is held: for every
   (account, ticker) the shares of the committed SELLs never exceed the
   shares of the committed BUYs. *)
C2_NoOversell ==
    \A account \in accounts, ticker \in Tickers :
        SumShares(TradesOf(account.id, ticker, "SELL"))
            <= SumShares(TradesOf(account.id, ticker, "BUY"))

(* C3: two execute_order calls on the same order never both succeed: when
   an execute_order call returns success, the order has not already been
   executed by another call. *)
C3_SingleExecute ==
    [][\A p \in Procs :
        (pc[p] = "eo_update" /\ result'.proc = p /\ result'.out = "ok") =>
            \A r \in db.planned_orders :
                r.id = call[p].order_id => r.status # "EXECUTED"
    ]_vars

(* C4: once an order is EXECUTED or CANCELLED its status never changes. *)
C4_TerminalStable ==
    [][\A r \in db.planned_orders : r.status \in Terminal =>
        \E r2 \in db'.planned_orders : r2.id = r.id /\ r2.status = r.status
    ]_vars

(* C5: no order is the origin of more than one Transaction (the notes of a
   transaction recorded by execute_order name the order). *)
C5_OneTransactionPerOrder ==
    \A r \in db.planned_orders :
        Cardinality({t \in db.transactions : t.notes = r.id}) <= 1

(* C6: execute_order, cancel_order and update_order called on an EXECUTED
   or CANCELLED order fail and leave the store unchanged.  The error is the
   status error ("InvalidState"); update_order given no updatable field
   fails on that first. *)
C6_TerminalRejects ==
    [][\A p \in Procs :
        (/\ Calls(p)
         /\ Started(p).op \in {"execute_order", "cancel_order", "update_order"}
         /\ \E r \in db.planned_orders :
                r.id = Started(p).order_id /\ r.status \in Terminal)
        => /\ pc'[p] = "idle"
           /\ db' = db
           /\ wdb' = wdb
           /\ result'.out \in {"InvalidState", "NoValidFields"}
           /\ (result'.out = "NoValidFields" =>
                    /\ Started(p).op = "update_order"
                    /\ DOMAIN Started(p).updates = {})
    ]_vars

\* update_order has just been rejected on an EXECUTED order.
C6_Witness ==
    /\ result.out = "InvalidState"
    /\ result.call.op = "update_order"
    /\ \E r \in db.planned_orders :
            r.id = result.call.order_id /\ r.status = "EXECUTED"

(* C7: a SELL through record_transaction for an (account, ticker) with no
   holding, or with fewer shares held than requested, is rejected with
   InsufficientShares and leaves the store unchanged. *)
C7_SellRejected ==
    [][\A p \in Procs :
        (/\ Calls(p)
         /\ Started(p).op = "record_transaction"
         /\ Started(p).args.action = "SELL"
         /\ LET a == Started(p).args
                held == HoldingRows(db, a.account_id, a.ticker)
            IN  held = {} \/ \E r \in held : r.shares < a.shares)
        => /\ pc'[p] = "idle"
           /\ result'.out = "InsufficientShares"
           /\ db' = db
           /\ wdb' = wdb
    ]_vars

\* A SELL of more shares than the existing holding has was just rejected.
C7_Witness ==
    /\ result.out = "InsufficientShares"
    /\ \E r \in db.holdings :
            /\ r.account_id = result.call.args.account_id
            /\ r.ticker = result.call.args.ticker
            /\ 0 < r.shares /\ r.shares < result.call.args.shares

(* C8: for every committed trade the settlement-currency balance after it
   minus the balance before it is -(shares*price + fee + tax) for a BUY and
   +(shares*price - fee - tax) for a SELL, a missing position counting 0;
   deposit 100000 then BUY 1000 @ 580.5 with fee 20 gives -480520. *)
C8_Example ==
    LET d0 == adjust_cash(EmptyDb, {}, 1, "TWD", Rat(100000)).db
        d1 == adjust_cash(d0, select_cash(d0, 1, "TWD"), 1, "TWD",
                          cash_change("BUY", 1000, <<1161, 2>>, 20, 0)).db
    IN  Balance(d1, 1, "TWD") = Rat(-480520)

C8_CashDelta ==
    [][/\ C8_Example
       /\ \A p \in Procs : Committed(p) =>
            LET a == call[p].args
                cur == (CHOOSE r \in accounts : r.id = a.account_id).currency
                gross == <<a.shares * a.price[1], a.price[2]>>
                delta == RSub(Balance(db', a.account_id, cur),
                              Balance(db, a.account_id, cur))
            IN  /\ a.action = "BUY" =>
                    RAdd(delta, RAdd(gross, Rat(a.fee + a.tax))) = Rat(0)
                /\ a.action = "SELL" =>
                    delta = RSub(gross, Rat(a.fee + a.tax))
    ]_vars

\* A SELL has just committed on an account that also took a cash deposit.
C8_Witness ==
    /\ result.out = "ok"
    /\ result.call.op = "record_transaction"
    /\ result.call.args.action = "SELL"
    /\ db.cash_transactions # {}

(* C9: after a sequence of BUYs on one (account, ticker) that started from
   no holding, the holding's shares are the sum of the bought shares and
   avg_cost * shares = sum(shares_i * price_i); after the first BUY
   avg_cost is its price. *)
C9_WeightedAverage ==
    \A account \in accounts, ticker \in Tickers :
        LET buys == TradesOf(account.id, ticker, "BUY")
            held == HoldingRows(db, account.id, ticker)
        IN  (buys # {} /\ TradesOf(account.id, ticker, "SELL") = {}) =>
                /\ Cardinality(held) = 1
                /\ \A r \in held :
                    /\ r.shares = SumShares(buys)
                    /\ RMul(r.avg_cost, Rat(r.shares)) = SumValue(buys)
                    /\ \A t \in buys : Cardinality(buys) = 1 => r.avg_cost = t.price

\* Three BUYs and no SELL are committed, not all at the same price.
C9_Witness ==
    /\ Cardinality(TradesOf(1, "2330.TW", "BUY")) = 3
    /\ TradesOf(1, "2330.TW", "SELL") = {}
    /\ \E t1, t2 \in db.transactions :
            t1.price # t2.price /\ t1.shares # t2.shares

(* C10: a successful SELL of n shares decrements the holding's shares by
   exactly n and leaves avg_cost unchanged; when n is all the held shares
   the row is deleted; {1000, 580.5} sell 400 gives {600, 580.5}. *)
C10_Example ==
    LET row == [account_id |-> 1, ticker |-> "2330.TW", shares |-> 1000,
                avg_cost |-> <<1161, 2>>]
        d0 == [EmptyDb EXCEPT !.holdings = {row}]
        r == update_holding_from_trade(d0, select_holding(d0, 1, "2330.TW"),
                                       1, "2330.TW", "SELL", 400, Rat(600))
    IN  r.err = "none" /\ r.db.holdings = {[row EXCEPT !.shares = 600]}

C10_SellDecrements ==
    [][/\ C10_Example
       /\ \A p \in Procs : (Committed(p) /\ call[p].args.action = "SELL") =>
            LET a == call[p].args
                before == HoldingRows(db, a.account_id, a.ticker)
                after == HoldingRows(db', a.account_id, a.ticker)
            IN  /\ Cardinality(before) = 1
                /\ \A r \in before :
                    /\ r.shares >= a.shares
                    /\ IF r.shares = a.shares
                       THEN after = {}
                       ELSE after = {[r EXCEPT !.shares = r.shares - a.shares]}
                /\ db'.holdings \ after = db.holdings \ before
    ]_vars

\* A SELL of part of a holding has just committed and left the rest.
C10_Witness ==
    /\ result.out = "ok"
    /\ result.call.op = "record_transaction"
    /\ result.call.args.action = "SELL"
    /\ \E r \in db.holdings : r.shares > 0 /\ r.avg_cost[2] = 2

(* C11: every stored holding row has shares > 0, after any sequence of
   trades, add_holding calls and holding syncs. *)
C11_PositiveShares ==
    \A r \in db.holdings : r.shares > 0

\* In this step a sync_broker_holdings call of caller p returns its counts.
SyncReturns(p) ==
    /\ pc[p] \in {"sy_upsert", "sy_remove"}
    /\ result'.proc = p
    /\ result'.out = "ok"

(* C12: reconciliation is idempotent: when sync_broker_holdings has returned,
   applying it again with the same snapshot returns added = 0, updated = 0,
   removed = 0 and leaves the holdings as the first application left them. *)
C12_SyncIdempotent ==
    [][\A p \in Procs : SyncReturns(p) =>
        LET c == result'.call
        IN  sync_broker_holdings(db', c.account_id, c.holdings_data) =
                [err |-> "none", db |-> db', added |-> 0, updated |-> 0,
                 removed |-> 0]
    ]_vars

(* C13: after sync_broker_holdings the account's holdings are exactly the
   snapshot's positive-share entries, and the returned counts are the numbers
   of rows inserted (snapshot-only tickers), overwritten (tickers in both
   whose row changed) and deleted (local tickers with no positive-share
   entry). *)
C13_SyncReplaces ==
    [][\A p \in Procs : SyncReturns(p) =>
        LET c == result'.call
            data == c.holdings_data
            positive == {data[i] : i \in {j \in DOMAIN data : data[j].shares > 0}}
            before == existing[p]
            after == {r \in db'.holdings : r.account_id = c.account_id}
            local == {r.ticker : r \in before}
            broker == {i.ticker : i \in positive}
        IN  /\ after = {[account_id |-> c.account_id, ticker |-> i.ticker,
                         shares |-> i.shares, avg_cost |-> i.avg_cost] :
                            i \in positive}
            /\ c.added = Cardinality(broker \ local)
            /\ c.updated = Cardinality({r \in before : r.ticker \in broker
                                                       /\ r \notin after})
            /\ c.removed = Cardinality(local \ broker)
    ]_vars


(* The position of a lookup in a step of caller p. *)
PriceGet(p, ticker) ==
    /\ pc[p] = "idle"
    /\ \/ /\ result'.proc = p
          /\ result'.call.op = "fetch_price"
          /\ result'.call.ticker = ticker
       \/ /\ pc'[p] = "fp_source"
          /\ call'[p].op = "fetch_price"
          /\ call'[p].ticker = ticker

RateGet(p, from_currency, to_currency) ==
    /\ pc[p] = "idle"
    /\ from_currency # to_currency
    /\ \/ /\ result'.proc = p
          /\ result'.call.op = "fetch_rate"
          /\ result'.call.from_currency = from_currency
          /\ result'.call.to_currency = to_currency
       \/ /\ pc'[p] = "fr_source"
          /\ call'[p].from_currency = from_currency
          /\ call'[p].to_currency = to_currency

\* A price asked for within the TTL of its entry is served from the entry.
PriceServed(p) ==
    \A e \in db.price_cache :
        PriceGet(p, e.ticker) /\ now - e.fetched_at <= PRICE_CACHE_TTL_MINUTES
            => /\ result'.proc = p /\ result'.out = "ok"
               /\ result'.call.entry =
                    [ticker |-> e.ticker, price |-> e.price,
                     currency |-> e.currency, cached |-> TRUE]
               /\ db' = db

\* A price asked for past the TTL of its entry is looked up at the source.
PriceRefetched(p) ==
    /\ \A e \in db.price_cache :
          PriceGet(p, e.ticker) /\ now - e.fetched_at > PRICE_CACHE_TTL_MINUTES
              => pc'[p] = "fp_source" /\ db' = db
    /\ pc[p] = "fp_update" /\ call[p].op = "fetch_price"
       /\ result'.proc = p /\ result'.out = "ok"
          => /\ select_price_cache(db', call[p].ticker) =
                  {[ticker |-> call[p].ticker, price |-> call[p].price,
                    currency |-> call[p].currency, fetched_at |-> now]}
             /\ result'.call.entry =
                  [ticker |-> call[p].ticker, price |-> call[p].price,
                   currency |-> call[p].currency, cached |-> FALSE]

RateServed(p) ==
    \A e \in db.exchange_rates :
        (/\ RateGet(p, e.from_currency, e.to_currency)
         /\ now - e.fetched_at <= FX_CACHE_TTL_MINUTES)
            => /\ result'.proc = p /\ result'.out = "ok"
               /\ result'.call.rate = e.rate
               /\ db' = db

RateRefetched(p) ==
    /\ \A e \in db.exchange_rates :
          (/\ RateGet(p, e.from_currency, e.to_currency)
           /\ now - e.fetched_at > FX_CACHE_TTL_MINUTES)
              => pc'[p] = "fr_source" /\ db' = db
    /\ pc[p] = "fr_update" /\ result'.proc = p /\ result'.out = "ok"
          => /\ select_rate_cache(db', call[p].from_currency,
                                  call[p].to_currency) =
                  {[from_currency |-> call[p].from_currency,
                    to_currency |-> call[p].to_currency,
                    rate |-> call[p].rate, fetched_at |-> now]}
             /\ result'.call.rate = call[p].rate

\* The result of a rate lookup carries the tag of the price lookup's result.
RateTagged(p) ==
    /\ \A e \in db.exchange_rates :
          (/\ RateGet(p, e.from_currency, e.to_currency)
           /\ now - e.fetched_at <= FX_CACHE_TTL_MINUTES)
              => "cached" \in DOMAIN result'.call /\ result'.call.cached
    /\ pc[p] = "fr_update" /\ result'.proc = p /\ result'.out = "ok"
          => "cached" \in DOMAIN result'.call /\ ~result'.call.cached

\* A lookup at the source always ends with the upsert and the fresh value.
SourceYields(p) ==
    /\ pc[p] = "fp_source" /\ call[p].op = "fetch_price"
          => pc'[p] \in {"fp_source", "fp_update"}
    /\ pc[p] = "fr_source" => pc'[p] \in {"fr_source", "fr_update"}
    /\ pc[p] = "fp_update" /\ call[p].op = "fetch_price" /\ pc'[p] = "idle"
          => result'.out = "ok"
    /\ pc[p] = "fr_update" /\ pc'[p] = "idle" => result'.out = "ok"

(* C14 as stated: within the TTL of its entry (price 15 minutes, rate 60) every
   lookup returns the stored value tagged cached = true, calls no source and
   changes no entry; past the TTL every lookup calls the source, upserts the
   fresh value with a new timestamp and returns it tagged cached = false. *)
C14_AsStated ==
    [][\A p \in Procs :
          /\ PriceServed(p) /\ PriceRefetched(p)
          /\ RateServed(p) /\ RateRefetched(p)
          /\ RateTagged(p) /\ SourceYields(p)]_vars

(* C14: within the TTL of its entry (price 15 minutes, rate 60) every lookup
   returns the stored value, a price tagged cached = true, calls no source and
   changes no entry; past the TTL every lookup calls the source, and the value
   the source yields is upserted with the time of the upsert and returned, a
   price tagged cached = false.  A rate is returned bare, without a tag. *)
C14_CacheTTL ==
    [][\A p \in Procs :
          /\ PriceServed(p) /\ PriceRefetched(p)
          /\ RateServed(p) /\ RateRefetched(p)]_vars

\* A price is served from an entry exactly as old as the TTL allows.
C14_Witness ==
    /\ result.proc = "p1" /\ result.call.op = "fetch_price"
    /\ result.out = "ok" /\ result.call.entry.cached
    /\ \E e \in db.price_cache :
          /\ e.ticker = result.call.ticker
          /\ now - e.fetched_at = PRICE_CACHE_TTL_MINUTES


\* What the source replied in a step of caller p at the source.
SourceReply(p) == IF pc'[p] = "idle" THEN result'.call.info ELSE call'[p].info

\* The reply holds no price: no field has one, a last price of 0 counting as
\* none.
NoValue(info) ==
    /\ ~info.raises
    /\ info.previousClose = NoPrice
    /\ info.lastPrice \in {NoPrice, Rat(0)}

(* C15: a lookup that found no entry within its TTL and gets no value from the
   source fails (PriceUnavailable / RateUnavailable): it returns no value, not
   the expired one either, and the cache stays as it was. *)
C15_NoStaleFallback ==
    [][\A p \in Procs :
          /\ pc[p] = "fp_source" /\ pc'[p] # "fp_source"
             /\ call[p].op = "fetch_price" /\ NoValue(SourceReply(p))
                => /\ get_cached_price(db, now, call[p].ticker) = {}
                   /\ result'.proc = p /\ result'.out = "PriceUnavailable"
                   /\ result'.call.entry = NoEntry
                   /\ db' = db
          /\ pc[p] = "fr_source" /\ pc'[p] # "fr_source"
             /\ NoValue(SourceReply(p))
                => /\ get_cached_rate(db, now, call[p].from_currency,
                                      call[p].to_currency) = {}
                   /\ result'.proc = p /\ result'.out = "RateUnavailable"
                   /\ result'.call.rate = NoPrice
                   /\ db' = db]_vars

\* A price lookup has failed while an expired entry of its ticker is stored.
C15_Witness ==
    /\ result.proc = "p1" /\ result.call.op = "fetch_price"
    /\ result.out = "PriceUnavailable"
    /\ \E e \in db.price_cache :
          /\ e.ticker = result.call.ticker
          /\ now - e.fetched_at > PRICE_CACHE_TTL_MINUTES


\* The tickers of a list.
Requested(tickers) == {tickers[i] : i \in DOMAIN tickers}

\* The entry of a ticker whose lookup failed: no price, and the error.
IsErrorEntry(e, ticker) ==
    /\ DOMAIN e = {"ticker", "price", "currency", "error"}
    /\ e.ticker = ticker /\ e.price = NoPrice /\ e.error # "none"

\* The entry fetch_price gives for a ticker: the price and currency that the
\* cache holds for it, served from the cache or just stored in it.
IsPriceEntry(e, ticker, d) ==
    /\ DOMAIN e = {"ticker", "price", "currency", "cached"}
    /\ e.ticker = ticker /\ e.cached \in BOOLEAN
    /\ \E r \in select_price_cache(d, ticker) :
          r.price = e.price /\ r.currency = e.currency

\* The call of caller p after a step in which it has dealt with a ticker.
BatchAfter(p) == IF pc'[p] = "idle" THEN result'.call ELSE call'[p]

(* C16: fetch_prices never fails as a whole: it returns one entry per requested
   ticker, which is the error entry (price null, the error) when the lookup of
   the ticker failed and the result of fetch_price otherwise; dealing with one
   ticker, failed or not, leaves the entries of the other tickers as they
   were. *)
C16_BatchNeverFails ==
    [][\A p \in Procs :
          /\ result'.proc = p /\ result'.call.op = "fetch_prices"
                => /\ result'.out = "ok"
                   /\ DOMAIN result'.call.results =
                          Requested(result'.call.requested)
                   /\ \A t \in DOMAIN result'.call.results :
                          \/ IsErrorEntry(result'.call.results[t], t)
                          \/ IsPriceEntry(result'.call.results[t], t, db')
          /\ pc[p] \in {"fp_source", "fp_update", "fp_next"}
             /\ call[p].op = "fetch_prices"
                => \A t \in DOMAIN call[p].results \ {call[p].ticker} :
                       /\ t \in DOMAIN BatchAfter(p).results
                       /\ BatchAfter(p).results[t] = call[p].results[t]]_vars

\* A batch has returned the error entry of one ticker and the price of another.
C16_Witness ==
    /\ result.proc = "p1" /\ result.call.op = "fetch_prices"
    /\ result.out = "ok"
    /\ \E t, u \in DOMAIN result.call.results :
          /\ IsErrorEntry(result.call.results[t], t)
          /\ IsPriceEntry(result.call.results[u], u, db)


\* In this step caller p takes a step of record_cash_transaction's with-block.
InCash(p) == pc[p] \in {"ct_adjust", "ct_insert"} /\ pc'[p] # pc[p]
CashCommitted(p) ==
    pc[p] = "ct_insert" /\ pc'[p] = "idle" /\ result'.out = "ok"

\* In this step caller p calls record_cash_transaction with an invalid
\* currency or category.
InvalidCash(p) ==
    /\ pc[p] = "idle"
    /\ pc'[p] # "idle" \/ result'.proc = p
    /\ LET c == IF pc'[p] = "idle" THEN result'.call ELSE call'[p]
       IN  /\ c.op = "record_cash_transaction"
           /\ \/ c.currency \notin {"TWD", "USD", "SGD"}
              \/ c.category \notin {"DEPOSIT", "WITHDRAWAL", "DIVIDEND",
                                    "INTEREST", "FEE", "FX_CONVERSION"}

(* C17: record_cash_transaction is atomic: every step of its with-block either
   leaves the committed store as it was, or is the commit, which makes the
   adjusted balance and the new cash_transactions row visible together; a call
   with an invalid currency or category fails and leaves the cash positions
   and the cash log as they were. *)
C17_CashAtomic ==
    [][\A p \in Procs :
          /\ InCash(p) =>
                LET c == call[p]
                IN  \/ /\ db' = db
                       /\ ~CashCommitted(p)
                    \/ /\ CashCommitted(p)
                       /\ \E t \in db'.cash_transactions :
                            /\ t \notin db.cash_transactions
                            /\ db'.cash_transactions =
                                  db.cash_transactions \cup {t}
                            /\ t.account_id = c.account_id
                            /\ t.currency = c.currency
                            /\ t.amount = c.amount /\ t.category = c.category
                       /\ db'.cash_positions =
                            adjust_cash(db, existing[p], c.account_id,
                                        c.currency, c.amount).db.cash_positions
                       /\ db'.holdings = db.holdings
                       /\ db'.transactions = db.transactions
          /\ InvalidCash(p) =>
                /\ result'.proc = p /\ result'.out # "ok"
                /\ db' = db
    ]_vars

\* A call has adjusted the balance inside the open transaction; the committed
\* store shows neither the adjustment nor a cash_transactions row.
C17_Witness ==
    \E p \in Procs :
        /\ lock = p /\ pc[p] = "ct_insert"
        /\ wdb.cash_positions # db.cash_positions
        /\ wdb.cash_transactions = db.cash_transactions
        /\ db.cash_transactions # {}


(* C18: concurrent cash writers lose no update: the commit of a
   record_cash_transaction call moves the committed balance of its
   (account, currency) by exactly its amount, whatever other writers have
   committed since the call began. *)
C18_NoLostUpdate ==
    [][\A p \in Procs : CashCommitted(p) =>
          Balance(db', call[p].account_id, call[p].currency) =
              RAdd(Balance(db, call[p].account_id, call[p].currency),
                   call[p].amount)]_vars


(* C19: an operation that returns an error has committed nothing: when
   execute_order fails after record_transaction has returned, the transaction
   of that attempt is not in the store, and no order is the origin of more
   than one transaction however often it is executed again. *)
C19_ErrorCommitsNothing ==
    [][\A p \in Procs :
          /\ pc[p] = "eo_update" /\ result'.proc = p /\ result'.out # "ok"
                => \A t \in db'.transactions : t.id # call[p].tx_id
          /\ \A r \in db'.planned_orders :
                Cardinality({t \in db'.transactions : t.notes = r.id}) <= 1
    ]_vars


\* The call that caller p starts in this step has malformed arguments.
Malformed(c) ==
    \/ /\ c.op = "record_transaction"
       /\ \/ c.args.action \notin {"BUY", "SELL"}
          \/ c.args.shares <= 0
          \/ c.args.price[1] <= 0
          \/ \A r \in accounts : r.id # c.args.account_id
    \/ /\ c.op = "create_order"
       /\ \/ c.action \notin {"BUY", "SELL"}
          \/ c.priority \notin {"HIGH", "NORMAL", "LOW"}

(* C20: malformed input is rejected before any mutation: record_transaction
   with an action other than BUY and SELL, shares <= 0, price <= 0 or an
   unknown account, and create_order with an action or a priority outside
   its set, fail at once and leave the store as it was. *)
C20_RejectedBeforeMutation ==
    [][\A p \in Procs : Calls(p) /\ Malformed(Started(p)) =>
          /\ pc'[p] = "idle"
          /\ result'.proc = p /\ result'.out # "ok"
          /\ db' = db]_vars

\* A trade with shares of 0 has been rejected while trades are stored.
C20_Witness ==
    /\ result.proc = "p1" /\ result.call.op = "record_transaction"
    /\ result.call.args.shares = 0 /\ result.call.args.action = "BUY"
    /\ result.out = "InvalidShares"
    /\ db.transactions # {}


(* C21: the trade log and the cash log are append-only: no step of any
   service (trades, cash movements, order execute, cancel and update,
   reconciliation, manual sets, account deactivation) changes or deletes a
   row of transactions or cash_transactions, and a row id is never reused. *)
C21_LogsAppendOnly ==
    [][/\ db.transactions \subseteq db'.transactions
       /\ db.cash_transactions \subseteq db'.cash_transactions
       /\ \A t, u \in db'.transactions : t.id = u.id => t = u
       /\ \A t, u \in db'.cash_transactions : t.id = u.id => t = u]_vars

\* Both logs hold rows, and afterwards the holding they built has been removed
\* and the account deactivated.
C21_Witness ==
    /\ db.transactions # {} /\ db.cash_transactions # {}
    /\ db.holdings = {}
    /\ \A r \in db.accounts : ~r.is_active
    /\ \E r \in db.planned_orders : r.status = "EXECUTED"

---------------------------------------------------------------------------
\* The step is one of caller p.
StepOf(p) == pc'[p] # pc[p] \/ call'[p] # call[p] \/ result'.proc = p

\* The step belongs to a summary call of caller p.
InSummary(p) ==
    /\ StepOf(p)
    /\ \/ call[p].op \in SummaryOps
       \/ call'[p].op \in SummaryOps
       \/ result'.proc = p /\ result'.call.op \in SummaryOps

\* The ledger tables of store d: everything but the two caches.
Ledger(d) ==
    <<d.accounts, d.holdings, d.transactions, d.cash_positions,
      d.cash_transactions, d.planned_orders>>

(* C22: get_account_summary, get_user_summary and get_total_summary never
   change the ledger: in every step of a summary call the accounts, holdings,
   transactions, cash positions, cash transactions and planned orders stay as
   they were; only price_cache and exchange_rates may change. *)
C22_SummariesReadOnly ==
    [][\A p \in Procs : InSummary(p) => Ledger(db') = Ledger(db)]_vars

\* get_total_summary has returned over a ledger with holdings and cash, and
\* the prices and rates it fetched are in the caches.
C22_Witness ==
    /\ result.call.op = "get_total_summary"
    /\ result.out = "ok"
    /\ db.holdings # {}
    /\ db.cash_positions # {}
    /\ db.price_cache # {}
    /\ db.exchange_rates # {}

---------------------------------------------------------------------------
\* The step is a whole call of set_cash, direct or through sync_broker_cash.
SetsCash(p) ==
    /\ pc[p] = "idle"
    /\ result'.proc = p
    /\ result'.call.op \in {"set_cash", "sync_broker_cash"}

(* C23: set_cash is an idempotent overwrite: a successful set_cash(account,
   currency, b), called directly or by sync_broker_cash, leaves exactly one
   position of (account, currency), with balance b, whatever was there
   before, and changes nothing else; applying the same call again gives the
   same store; so of two successive syncs the later balance remains. A call
   that raises changes nothing. *)
C23_SetCashOverwrites ==
    [][\A p \in Procs : SetsCash(p) =>
        LET c == result'.call
            key(r) == r.account_id = c.account_id /\ r.currency = c.currency
        IN  IF result'.out = "ok"
            THEN /\ {r \in db'.cash_positions : key(r)} =
                        {[account_id |-> c.account_id,
                          currency |-> c.currency, balance |-> c.balance]}
                 /\ {r \in db'.cash_positions : ~key(r)} =
                        {r \in db.cash_positions : ~key(r)}
                 /\ [db' EXCEPT !.cash_positions = {}] =
                        [db EXCEPT !.cash_positions = {}]
                 /\ set_cash(db', c.account_id, c.currency, c.balance).db = db'
            ELSE db' = db]_vars

\* A sync has overwritten a position that a deposit of 10 had built.
C23_Witness ==
    /\ result.call.op = "sync_broker_cash"
    /\ result.out = "ok"
    /\ \E t \in db.cash_transactions :
          /\ t.account_id = result.call.account_id
          /\ t.currency = result.call.currency
    /\ Balance(db, result.call.account_id, result.call.currency)
          = result.call.balance

---------------------------------------------------------------------------
Range(f) == {f[i] : i \in DOMAIN f}

RECURSIVE SumSeq(_)
SumSeq(xs) == IF xs = <<>> THEN Rat(0) ELSE RAdd(Head(xs), SumSeq(Tail(xs)))

\* What fetch_prices returned holds a price for the ticker.
Priced(prices, ticker) ==
    ticker \in DOMAIN prices /\ prices[ticker].price # NoPrice

\* The entry of a holding in an account summary, given what fetch_prices
\* returned.
DetailOk(d, prices) ==
    LET h == d.holding
    IN  IF Priced(prices, h.ticker)
        THEN /\ d.current_price = prices[h.ticker].price
             /\ d.market_value = RMul(prices[h.ticker].price, Rat(h.shares))
             /\ d.unrealized_pnl =
                    RSub(d.market_value, RMul(h.avg_cost, Rat(h.shares)))
        ELSE /\ d.current_price = NoPrice
             /\ d.market_value = NoPrice
             /\ d.unrealized_pnl = NoPrice
             /\ d.pnl_pct = NoPrice

\* The market values of the priced holdings of account summary s, added up.
PricedValue(s) ==
    SumValue({[ticker |-> d.holding.ticker, shares |-> d.holding.shares,
               price |-> d.current_price] :
                  d \in {x \in Range(s.holdings) : x.current_price # NoPrice}})

\* Account summary s lists the holdings of its account in the store, and its
\* totals are the priced market values plus the cash in the account's currency.
TotalsOk(s) ==
    LET held == {r \in db.holdings :
                    r.account_id = s.account.id /\ r.shares > 0}
    IN  /\ s.account \in db.accounts
        /\ {d.holding : d \in Range(s.holdings)} = held
        /\ Len(s.holdings) = Cardinality(held)
        /\ s.total_stock_value = PricedValue(s)
        /\ s.total_cash_value = Balance(db, s.account.id, s.account.currency)
        /\ s.total_value = RAdd(s.total_stock_value, s.total_cash_value)

(* C24: get_account_summary never fails because a held ticker has no price:
   for an existing account it returns; a holding without a price has null
   market_value, unrealized_pnl and pnl_pct and adds nothing to the totals; a
   priced holding has market_value = price * shares and unrealized_pnl =
   market_value - avg_cost * shares; total_value is the sum of the priced
   market values plus the cash balance in the account's own currency only. *)
C24_AccountSummary ==
    result.call.op = "get_account_summary" =>
        IF get_account(result.call.account_id) = {}
        THEN result.out = "AccountNotFound"
        ELSE /\ result.out = "ok"
             /\ result.call.summary.account.id = result.call.account_id
             /\ TotalsOk(result.call.summary)
             /\ \A d \in Range(result.call.summary.holdings) :
                   DetailOk(d, result.call.results)

\* A summary of an account holding one priced and one unpriced ticker, with
\* cash in its own and in another currency.
C24_Witness ==
    /\ result.call.op = "get_account_summary"
    /\ result.out = "ok"
    /\ \E d, e \in Range(result.call.summary.holdings) :
          d.current_price # NoPrice /\ e.current_price = NoPrice
    /\ \E r, q \in result.call.summary.cash :
          /\ r.currency = result.call.summary.currency
          /\ q.currency # result.call.summary.currency
          /\ q.balance # Rat(0)

\* The rate from one currency to another as the store holds it.
RateTo(d, from_currency, to_currency) ==
    IF from_currency = to_currency THEN Rat(1)
    ELSE LET rows == select_rate_cache(d, from_currency, to_currency)
         IN  IF rows = {} THEN NoPrice ELSE TheRow(rows).rate

\* User summary us covers exactly the active accounts of its user, each with
\* the rate from its currency to the base currency, and adds up their
\* converted totals.
UserSummaryOk(us) ==
    LET active == {r \in db.accounts : r.user_id = us.user.id /\ r.is_active}
    IN  /\ us.user \in users
        /\ {s.account : s \in Range(us.accounts)} = active
        /\ Len(us.accounts) = Cardinality(active)
        /\ \A s \in Range(us.accounts) :
              /\ TotalsOk(s)
              /\ s.fx_rate = RateTo(db, s.account.currency, us.base_currency)
              /\ s.converted_total = RMul(s.total_value, s.fx_rate)
        /\ us.grand_total =
              SumSeq([i \in DOMAIN us.accounts |->
                        RMul(us.accounts[i].total_value,
                             RateTo(db, us.accounts[i].account.currency,
                                    us.base_currency))])

(* C25: the grand total of get_user_summary is the sum, over exactly the
   active accounts of the user, of the account's total_value times the rate
   from the account's currency to the base currency, the rate being recorded
   beside each account; the grand total of get_total_summary is the sum of
   the grand totals of get_user_summary over all users. *)
C25_GrandTotals ==
    /\ (result.call.op = "get_user_summary" /\ result.out = "ok")
          => /\ result.call.summary.user.username = result.call.username
             /\ UserSummaryOk(result.call.summary)
    /\ (result.call.op = "get_total_summary" /\ result.out = "ok")
          => LET ts == result.call.summary
             IN  /\ {us.user : us \in Range(ts.users)} = users
                 /\ Len(ts.users) = Cardinality(users)
                 /\ \A us \in Range(ts.users) : UserSummaryOk(us)
                 /\ ts.grand_total =
                       SumSeq([i \in DOMAIN ts.users |->
                                 ts.users[i].grand_total])

\* The total over all users, one of them with a deactivated account holding
\* cash and an active account in another currency whose value is converted.
C25_Witness ==
    /\ result.call.op = "get_total_summary"
    /\ result.out = "ok"
    /\ \E r \in db.accounts :
          ~r.is_active /\ Balance(db, r.id, r.currency) # Rat(0)
    /\ \E us \in Range(result.call.summary.users) :
          \E s \in Range(us.accounts) :
              /\ s.fx_rate # Rat(1)
              /\ s.total_value # Rat(0)
              /\ us.grand_total = s.converted_total

---------------------------------------------------------------------------
\* The currency of account row r is the one of its market.
Canonical(r) ==
    \/ r.market = "TW" /\ r.currency = "TWD"
    \/ r.market = "US" /\ r.currency = "USD"
    \/ r.market = "SG" /\ r.currency = "SGD"

\* Account row r is still there after the step, changed at most in is_active.
AccountKept(r) ==
    \E q \in db'.accounts : [q EXCEPT !.is_active = r.is_active] = r

(* C26: in every reachable state the currency of each account is the
   canonical one of its market (TW -> TWD, US -> USD, SG -> SGD) and every
   transaction carries the currency of its account; no step changes an
   account's currency or market, deactivation changing only the active flag. *)
C26_CanonicalCurrency ==
    /\ [](/\ \A r \in db.accounts : Canonical(r)
          /\ \A t \in db.transactions :
                \E r \in db.accounts :
                    r.id = t.account_id /\ r.currency = t.currency)
    /\ [][\A r \in db.accounts : AccountKept(r)]_vars

\* An account opened on the US market has been traded on and deactivated.
C26_Witness ==
    \E r \in db.accounts :
        /\ r.id # 1
        /\ r.market = "US"
        /\ ~r.is_active
        /\ \E t \in db.transactions : t.account_id = r.id /\ t.currency = "USD"

---------------------------------------------------------------------------
\* In this step the transaction of an execute_order of caller p commits.
OrderRecorded(p) ==
    /\ call[p].op = "execute_order"
    /\ pc[p] = "rt_insert"
    /\ pc'[p] = "eo_update"

(* C27: execute_order records one transaction, with the account, ticker,
   action and shares of the order and with the price, fee and tax the caller
   passed; the cash of the account changes by -(shares * price + fee + tax)
   for a BUY and by shares * price - fee - tax for a SELL at that price,
   whatever the target_price of the order is. *)
C27_ExecutedAsSupplied ==
    [][\A p \in Procs : OrderRecorded(p) =>
        LET c == call[p]
            order == TheRow(select_order(db, c.order_id))
            new == db'.transactions \ db.transactions
            cur == TheRow(get_account(order.account_id)).currency
            gross == RMul(Rat(order.shares), c.actual_price)
            delta == RSub(Balance(db', order.account_id, cur),
                          Balance(db, order.account_id, cur))
        IN  /\ Cardinality(new) = 1
            /\ \A t \in new :
                  /\ t.account_id = order.account_id
                  /\ t.ticker = order.ticker
                  /\ t.action = order.action
                  /\ t.shares = order.shares
                  /\ t.price = c.actual_price
                  /\ t.fee = c.fee
                  /\ t.tax = c.tax
            /\ order.action = "BUY" =>
                  delta = RNeg(RAdd(gross, Rat(c.fee + c.tax)))
            /\ order.action = "SELL" =>
                  delta = RSub(gross, Rat(c.fee + c.tax))]_vars

\* An order with a target price of 9 has been executed at the price of 2
\* with fee and tax.
C27_Witness ==
    /\ result.call.op = "execute_order"
    /\ result.out = "ok"
    /\ \E r \in db.planned_orders, t \in db.transactions :
          /\ r.id = result.call.order_id
          /\ r.target_price = Rat(9)
          /\ r.linked_transaction_id = t.id
          /\ t.price = Rat(2)
          /\ t.tax = 2

---------------------------------------------------------------------------
(* C28: in every reachable state each EXECUTED order is linked to a stored
   transaction whose account, ticker, action and shares are those the order
   has now, also when update_order or cancel_order runs between the status
   read and the status write of execute_order. *)
C28_LinkedMatches ==
    \A r \in db.planned_orders :
        r.status = "EXECUTED" =>
            \E t \in db.transactions :
                /\ t.id = r.linked_transaction_id
                /\ t.account_id = r.account_id
                /\ t.ticker = r.ticker
                /\ t.action = r.action
                /\ t.shares = r.shares

---------------------------------------------------------------------------
(* C29: in every reachable state every planned order has an action in
   {BUY, SELL}, a priority in {HIGH, NORMAL, LOW}, a status in {PENDING,
   EXECUTED, CANCELLED} and shares > 0, after any sequence of create_order
   and update_order calls. *)
C29_OrderFieldsValid ==
    \A r \in db.planned_orders :
        /\ r.action \in TRANSACTION_ACTIONS
        /\ r.priority \in ORDER_PRIORITIES
        /\ r.status \in ORDER_STATUSES
        /\ r.shares > 0

---------------------------------------------------------------------------
\* In this step an update_order of caller p writes and returns.
OrderUpdated(p) ==
    /\ call[p].op = "update_order"
    /\ pc[p] = "uo_update"
    /\ result'.proc = p
    /\ result'.out = "ok"

(* C30: a successful update_order on a PENDING order changes only fields of
   that order that were supplied and are among ticker, action, shares,
   target_price, reason and priority; its status, account, executed_at and
   linked_transaction_id, every other order, and the holdings, cash and
   transactions stay as they were. *)
C30_UpdateFrame ==
    [][\A p \in Procs : OrderUpdated(p) =>
        LET c == call[p]
            supplied == DOMAIN c.kwargs \cap
                {"ticker", "action", "shares", "target_price", "reason",
                 "priority"}
        IN  /\ \A r \in db.planned_orders :
                  IF r.id = c.order_id
                  THEN /\ r.status = "PENDING"
                       /\ \E q \in db'.planned_orders :
                             /\ q.id = r.id
                             /\ \A k \in DOMAIN r \ supplied : q[k] = r[k]
                  ELSE r \in db'.planned_orders
            /\ Cardinality(db'.planned_orders) = Cardinality(db.planned_orders)
            /\ [db' EXCEPT !.planned_orders = {}]
                  = [db EXCEPT !.planned_orders = {}]]_vars

\* update_order(2, status = ..., reason = "r") has returned: order 2 has the
\* reason and is still PENDING, beside an executed order 1.
C30_Witness ==
    /\ result.call.op = "update_order"
    /\ result.out = "ok"
    /\ "status" \in DOMAIN result.call.kwargs
    /\ \E r, q \in db.planned_orders :
          /\ r.id = result.call.order_id
          /\ r.reason = "r"
          /\ r.status = "PENDING"
          /\ q.id # r.id
          /\ q.status = "EXECUTED"
    /\ db.transactions # {}

(* C31: a successful cancel_order on a PENDING order changes only that     *)
(* order's status, to CANCELLED: no transaction is created, the order's    *)
(* linked_transaction_id stays null, and every holding, cash position and  *)
(* other order is as before.                                               *)
C31_CancelFrame ==
    [][\A p \in Procs :
        (pc[p] = "co_update" /\ pc'[p] = "idle") =>
            LET row == TheRow(select_order(db, call[p].order_id))
            IN  row.status = "PENDING" =>
                    /\ result'.out = "ok"
                    /\ db'.planned_orders =
                          (db.planned_orders \ {row})
                              \cup {[row EXCEPT !.status = "CANCELLED"]}
                    /\ \A r \in select_order(db', call[p].order_id) :
                          r.linked_transaction_id = NULL
                    /\ db'.transactions = db.transactions
                    /\ db'.holdings = db.holdings
                    /\ db'.cash_positions = db.cash_positions
                    /\ db'.cash_transactions = db.cash_transactions
                    /\ db'.accounts = db.accounts]_vars

\* An order was cancelled beside an executed one, holdings and cash in place.
C31_Witness ==
    /\ result.proc = "p1"
    /\ result.call.op = "cancel_order"
    /\ result.out = "ok"
    /\ \E r \in db.planned_orders :
          r.id = result.call.order_id /\ r.status = "CANCELLED"
    /\ \E r \in db.planned_orders : r.status = "EXECUTED"
    /\ db.holdings # {}
    /\ db.cash_positions # {}
    /\ db.transactions # {}

(* C32: a sync_broker_holdings call that fails partway (a duplicate ticker *)
(* in the snapshot, a storage error during the upserts or during one of    *)
(* the removals) retains none of its additions, overwrites or removals:    *)
(* the account's holdings are as the call found them.                      *)
C32_SyncAllOrNothing ==
    [][\A p \in Procs :
        (/\ pc[p] \in {"sy_upsert", "sy_remove"}
         /\ result'.proc = p
         /\ result'.out # "ok") =>
            list_holdings(db', result'.call.account_id) = existing[p]]_vars

\* The store after the first k committed transactions, applied one after
\* another to the empty ledger.
RECURSIVE LedgerAfter(_)
LedgerAfter(k) ==
    IF k = 0 THEN EmptyDb
    ELSE LET d == LedgerAfter(k - 1)
             t == TheRow({r \in db.transactions : r.id = k})
             h == update_holding_from_trade(d,
                      select_holding(d, t.account_id, t.ticker), t.account_id,
                      t.ticker, t.action, t.shares, t.price).db
         IN  adjust_cash(h, select_cash(h, t.account_id, t.currency),
                         t.account_id, t.currency,
                         cash_change(t.action, t.shares, t.price, t.fee, t.tax)).db

(* C33: a summary returned by get_account_summary while trades commit      *)
(* shows the holdings and the cash of one committed ledger state: some     *)
(* state between two trades has exactly the holdings and exactly the cash  *)
(* positions of the summary.                                               *)
C33_SingleState ==
    (result.call.op = "get_account_summary" /\ result.out = "ok") =>
        LET summary == result.call.summary
            held == {summary.holdings[i].holding : i \in DOMAIN summary.holdings}
        IN  \E k \in 0..Cardinality(db.transactions) :
                /\ held = list_holdings(LedgerAfter(k), summary.account.id)
                /\ summary.cash = list_cash(LedgerAfter(k), summary.account.id)

\* The sum of the amounts of a set of cash_transactions rows.
RECURSIVE SumAmounts(_)
SumAmounts(S) ==
    IF S = {} THEN Rat(0)
    ELSE LET t == CHOOSE y \in S : TRUE
         IN  RAdd(t.amount, SumAmounts(S \ {t}))

\* The sum of the cash deltas of a set of transactions rows.
RECURSIVE SumDeltas(_)
SumDeltas(S) ==
    IF S = {} THEN Rat(0)
    ELSE LET t == CHOOSE y \in S : TRUE
         IN  RAdd(cash_change(t.action, t.shares, t.price, t.fee, t.tax),
                  SumDeltas(S \ {t}))

(* C34: with no set_cash and no cash sync applied, every committed         *)
(* (account, currency) balance is the sum of the amounts of the committed  *)
(* cash_transactions of the pair plus, for the account's settlement        *)
(* currency, the sum of the cash deltas of the account's committed         *)
(* transactions, under every interleaving of trades and cash movements.    *)
C34_BalanceIsSum ==
    \A account \in accounts, currency \in CURRENCIES :
        Balance(db, account.id, currency) =
            RAdd(SumAmounts({t \in db.cash_transactions :
                                t.account_id = account.id
                                /\ t.currency = currency}),
                 IF currency = account.currency
                 THEN SumDeltas({t \in db.transactions :
                                    t.account_id = account.id})
                 ELSE Rat(0))

(* C35: with no manual add, removal or sync, the shares of every committed *)
(* (account, ticker) holding are the shares of the committed BUYs minus    *)
(* those of the committed SELLs of the pair, and the holding is absent     *)
(* exactly when that is 0, under every interleaving of trades (two         *)
(* concurrent BUYs included).                                              *)
C35_SharesAreSum ==
    \A account \in accounts, ticker \in Tickers :
        LET rows == HoldingRows(db, account.id, ticker)
            net == SumShares(TradesOf(account.id, ticker, "BUY"))
                       - SumShares(TradesOf(account.id, ticker, "SELL"))
        IN  IF net = 0 THEN rows = {}
            ELSE rows # {} /\ \A r \in rows : r.shares = net

\* In this step caller p commits the upsert of a price, of a rate.
PriceUpsert(p) == pc[p] = "fp_update" /\ pc'[p] # "fp_update" /\ db' # db
RateUpsert(p) == pc[p] = "fr_update" /\ pc'[p] # "fr_update" /\ db' # db

(* C36: under every interleaving of fetch_price and fetch_rate calls,      *)
(* concurrent misses of one key included, the cache holds at most one      *)
(* entry per ticker and per (from, to) pair, and the entry is the one of   *)
(* the most recently committed upsert of its key: an upsert leaves its own *)
(* value and the time of the upsert in the entry of its key and every      *)
(* other entry as it was, and no other step changes an entry.              *)
C36_LastWriteWins ==
    /\ [](/\ \A r1, r2 \in db.price_cache : r1.ticker = r2.ticker => r1 = r2
          /\ \A r1, r2 \in db.exchange_rates :
                (r1.from_currency = r2.from_currency
                 /\ r1.to_currency = r2.to_currency) => r1 = r2)
    /\ [][/\ \A p \in Procs : PriceUpsert(p) =>
                /\ select_price_cache(db', call[p].ticker) =
                      {[ticker |-> call[p].ticker, price |-> call[p].price,
                        currency |-> call[p].currency, fetched_at |-> now]}
                /\ \A r \in db.price_cache \cup db'.price_cache :
                      r.ticker # call[p].ticker =>
                          r \in db.price_cache /\ r \in db'.price_cache
                /\ db'.exchange_rates = db.exchange_rates
          /\ \A p \in Procs : RateUpsert(p) =>
                /\ select_rate_cache(db', call[p].from_currency,
                                     call[p].to_currency) =
                      {[from_currency |-> call[p].from_currency,
                        to_currency |-> call[p].to_currency,
                        rate |-> call[p].rate, fetched_at |-> now]}
                /\ \A r \in db.exchange_rates \cup db'.exchange_rates :
                      (r.from_currency # call[p].from_currency
                       \/ r.to_currency # call[p].to_currency) =>
                          r \in db.exchange_rates /\ r \in db'.exchange_rates
                /\ db'.price_cache = db.price_cache
          /\ (\A p \in Procs : ~PriceUpsert(p) /\ ~RateUpsert(p)) =>
                /\ db'.price_cache = db.price_cache
                /\ db'.exchange_rates = db.exchange_rates]_vars

\* Both callers missed AAPL; one has committed its price and the other is
\* about to upsert a different one over it.
C36_Witness ==
    /\ pc["p1"] = "fp_update"
    /\ result.proc = "p2"
    /\ result.call.op = "fetch_price"
    /\ result.out = "ok"
    /\ result.call.entry.cached = FALSE
    /\ \E r \in db.price_cache :
          /\ r.ticker = call["p1"].ticker
          /\ r.price = result.call.entry.price
          /\ r.price # call["p1"].price

(* C37: fetch_rate(c, c) returns exactly 1.0 at once, whatever the cache   *)
(* holds: it does not go to the data source, and it leaves the FX cache    *)
(* and the rest of the store as they were.                                 *)
C37_SameCurrency ==
    [][\A p \in Procs :
        (/\ Calls(p)
         /\ Started(p).op = "fetch_rate"
         /\ Started(p).from_currency = Started(p).to_currency) =>
            /\ pc'[p] = "idle"
            /\ result'.proc = p
            /\ result'.out = "ok"
            /\ result'.call.rate = Rat(1)
            /\ result'.call.info = NoInfo
            /\ db' = db]_vars

\* TWD to TWD was asked for while the cache held a rate, and 1 came back.
C37_Witness ==
    /\ result.call.op = "fetch_rate"
    /\ result.call.from_currency = result.call.to_currency
    /\ result.out = "ok"
    /\ result.call.rate = Rat(1)
    /\ db.exchange_rates # {}

(* C38: get_user_summary fails for a missing FX rate only when the rate is *)
(* one it needs: a lookup that ends the summary with RateUnavailable is    *)
(* from the currency of one of the user's active accounts, so a rate that  *)
(* none of the user's accounts uses cannot make the summary fail.          *)
C38_NeededRatesOnly ==
    [][\A p \in Procs :
        (/\ pc[p] = "fr_source"
         /\ call[p].op = "get_user_summary"
         /\ result'.proc = p
         /\ result'.out = "RateUnavailable") =>
            \E a \in Range(call[p].accounts) :
                a.currency = call[p].from_currency]_vars

(* C39: the total_stock_value of an account summary is the sum of the      *)
(* market values of the priced holdings whose price is in the account's    *)
(* settlement currency: a holding priced in another currency adds nothing  *)
(* to it.                                                                  *)
C39_SettlementCurrencyOnly ==
    (result.call.op = "get_account_summary" /\ result.out = "ok") =>
        LET s == result.call.summary
            prices == result.call.results
            counted == {d \in Range(s.holdings) :
                          /\ d.current_price # NoPrice
                          /\ prices[d.holding.ticker].currency = s.account.currency}
        IN  s.total_stock_value =
                SumValue({[ticker |-> d.holding.ticker,
                           shares |-> d.holding.shares,
                           price |-> d.current_price] : d \in counted})

(* C40: every fetch_price, fetch_rate and fetch_prices call eventually     *)
(* returns, with a value or an error, also when the data source never      *)
(* answers a request; a batch is not held up by one ticker.                *)
C40_AlwaysReturns == (pc["p1"] # "idle") ~> (pc["p1"] = "idle")

====
